---- MODULE Spec2Model ----
(***************************************************************************)
(* A model of trident, a trigram index with a successor relation:          *)
(*   - the integer codecs of build/serialize.rs (bit-packed blocks of 128  *)
(*     values and a varint tail),                                          *)
(*   - the trigram extractor and the index builder of build/mod.rs,        *)
(*   - the index reader and its three query plans of index.rs.             *)
(* The file written by build is a sequence of bytes; the reader parses     *)
(* those bytes.                                                            *)
(***************************************************************************)
EXTENDS Integers, Sequences, FiniteSets, TLC

\* ------------------------------------------------------------------ bounds
MaxDocs == 2
MaxTotalBytes == 6
MaxQueryLen == 6
MaxContentLen == 6
MaxBlocks == 2
MaxTailLen == 2
MaxIters == 2
MaxMapDocs == 3
MaxRequired == 3

\* ------------------------------------------------------- program constants
BLOCK_LEN == 128
SENTINEL == 255
INDEX_HEADER_SIZE == 52
POSTING_HEADER_SIZE == 27

\* Bytes documents and queries are made of ("a", "b"); the extractor is also
\* given the sentinel byte.
DocBytes == {97, 98}
QueryBytes == {97, 98}
ContentBytes == {97, 98, 99}

\* ----------------------------------------------------------------- helpers
Min(a, b) == IF a <= b THEN a ELSE b
Max(a, b) == IF a >= b THEN a ELSE b

SeqsUpTo(S, n) == UNION {[1..k -> S] : k \in 0..n}

Range(s) == {s[i] : i \in 1..Len(s)}

\* the concatenation of ss[lo..hi], by halves
RECURSIVE Flatten(_, _, _)
Flatten(ss, lo, hi) ==
    IF lo > hi THEN <<>>
    ELSE IF lo = hi THEN ss[lo]
    ELSE Flatten(ss, lo, (lo + hi) \div 2) \o Flatten(ss, ((lo + hi) \div 2) + 1, hi)

Concat(ss) == Flatten(ss, 1, Len(ss))

\* ------------------------------------------------------- 32-bit unsigned
\* A u32 is a pair <<hi, lo>> of 16-bit halves: the model checker's integers
\* are narrower than u32.
W(n) == <<n \div 65536, n % 65536>>
WZero == <<0, 0>>
WVal(v) == v[1] * 65536 + v[2]
WSmall(v) == v[1] < 32768
WLess(a, b) == a[1] < b[1] \/ (a[1] = b[1] /\ a[2] < b[2])
WLeq(a, b) == a = b \/ WLess(a, b)
\* wrapping subtraction and addition (mod 2^32)
WSub(a, b) ==
    LET lo == a[2] - b[2]
        borrow == IF lo < 0 THEN 1 ELSE 0
        hi == a[1] - b[1] - borrow
    IN <<(hi + 65536) % 65536, (lo + 65536) % 65536>>
WAdd(a, b) ==
    LET lo == a[2] + b[2]
        hi == a[1] + b[1] + (lo \div 65536)
    IN <<hi % 65536, lo % 65536>>

Bits16(x) == CHOOSE k \in 0..16 : x < 2^k /\ (k = 0 \/ x >= 2^(k - 1))
\* the number of bits needed to write v (0 for 0, 32 for values >= 2^31)
WBits(v) == IF v[1] > 0 THEN 16 + Bits16(v[1]) ELSE Bits16(v[2])
\* bit p of v
WBit(v, p) ==
    IF p < 16 THEN (v[2] \div 2^p) % 2
    ELSE IF p < 32 THEN (v[1] \div 2^(p - 16)) % 2
    ELSE 0
\* v >> s, for results that fit 24 bits (s >= 8)
WShr(v, s) ==
    IF s >= 16 THEN v[1] \div 2^(s - 16)
    ELSE v[1] * 2^(16 - s) + (v[2] \div 2^s)

RECURSIVE WField(_, _, _)
\* the w bits of v from bit p upwards, as a number (w <= 16)
WField(v, p, w) == IF w <= 0 THEN 0 ELSE WBit(v, p) + 2 * WField(v, p + 1, w - 1)

IsSortedW(xs) == \A i \in 1..(Len(xs) - 1) : WLeq(xs[i], xs[i + 1])

\* ------------------------------------------------------- 64-bit unsigned
\* A u64 is a pair <<hi, lo>> of u32 halves.
L(n) == <<WZero, W(n)>>
LMax == <<<<65535, 65535>>, <<65535, 65535>>>>
LLess(a, b) == WLess(a[1], b[1]) \/ (a[1] = b[1] /\ WLess(a[2], b[2]))
LLeq(a, b) == a = b \/ LLess(a, b)
\* a + b in u64: the wrapped sum, and whether the exact sum exceeds 2^64 - 1
LAdd(a, b) ==
    LET lo == WAdd(a[2], b[2])
        carry == IF WLess(lo, a[2]) THEN <<0, 1>> ELSE WZero
    IN <<WAdd(WAdd(a[1], b[1]), carry), lo>>
LOverflows(a, b) == LLess(LAdd(a, b), a)

\* ------------------------------------------------------------------ varint
\* write_varint of a u32: unsigned LEB128, 7 payload bits per byte, the high
\* bit set on every byte but the last.
VarintLen(v) == Max(1, (WBits(v) + 6) \div 7)
VarintEncode(v) ==
    [k \in 1..VarintLen(v) |->
        WField(v, 7 * (k - 1), 7) + (IF k < VarintLen(v) THEN 128 ELSE 0)]

\* the 7-bit group g shifted left by s bits, truncated to 32 bits
WGroup(g, s) ==
    IF s < 16 THEN <<(g * 2^s) \div 65536, (g * 2^s) % 65536>>
    ELSE IF s < 32 THEN <<(g * 2^(s - 16)) % 65536, 0>>
    ELSE WZero

RECURSIVE VarintValue(_, _, _)
VarintValue(bytes, pos, n) ==
    IF n = 0 THEN WZero
    ELSE WAdd(VarintValue(bytes, pos, n - 1),
              WGroup(bytes[pos + n] % 128, 7 * (n - 1)))

\* read_varint::<u32> at offset pos: the bytes up to the first one without
\* the high bit, at most 5; the end of the source or a sixth byte is an error.
ReadVarint(bytes, pos) ==
    LET avail == Len(bytes) - pos
        ends == {k \in 1..Min(5, avail) : bytes[pos + k] < 128}
    IN IF avail <= 0 \/ ends = {}
       THEN [ok |-> FALSE, val |-> WZero, pos |-> pos]
       ELSE LET n == CHOOSE k \in ends : \A j \in ends : k <= j
            IN [ok |-> TRUE, val |-> VarintValue(bytes, pos, n), pos |-> pos + n]

\* ------------------------------------------------------------ bit packing
\* BitPacker4x::num_bits: the width of the widest value of the block.
NumBits(chunk) ==
    LET widths == {WBits(chunk[i]) : i \in 1..Len(chunk)}
    IN IF widths = {} THEN 0 ELSE CHOOSE m \in widths : \A k \in widths : k <= m

\* bit b of the block's bit stream: value i occupies bits i*nb .. i*nb+nb-1
StreamBit(chunk, nb, b) == WBit(chunk[(b \div nb) + 1], b % nb)

RECURSIVE PackBits(_, _, _, _)
PackBits(chunk, nb, b, w) ==
    IF w = 0 THEN 0 ELSE StreamBit(chunk, nb, b) + 2 * PackBits(chunk, nb, b + 1, w - 1)

\* BitPacker4x::compress: num_bits * BLOCK_LEN / 8 bytes
BitPack(chunk, nb) ==
    [k \in 1..((nb * BLOCK_LEN) \div 8) |-> PackBits(chunk, nb, 8 * (k - 1), 8)]

BufBit(buf, b) == (buf[(b \div 8) + 1] \div 2^(b % 8)) % 2

RECURSIVE UnpackBits(_, _, _)
UnpackBits(buf, b, w) ==
    IF w <= 0 THEN 0 ELSE BufBit(buf, b) + 2 * UnpackBits(buf, b + 1, w - 1)

\* BitPacker4x::decompress
BitUnpack(buf, nb) ==
    [i \in 1..BLOCK_LEN |->
        <<UnpackBits(buf, (i - 1) * nb + 16, nb - 16),
          UnpackBits(buf, (i - 1) * nb, Min(nb, 16))>>]

\* the differences of consecutive values, the first one from `initial`
Deltas(initial, chunk) ==
    [i \in 1..Len(chunk) |-> WSub(chunk[i], IF i = 1 THEN initial ELSE chunk[i - 1])]

\* BitPacker4x::num_bits_sorted and compress_sorted
NumBitsSorted(initial, chunk) == NumBits(Deltas(initial, chunk))
BitPackSorted(initial, chunk, nb) == BitPack(Deltas(initial, chunk), nb)

\* the running sums of ds[lo..hi] from `initial`, wrapping: each value is its
\* delta plus the value before it (the range is split in halves)
RECURSIVE PrefixSums(_, _, _, _)
PrefixSums(initial, ds, lo, hi) ==
    IF lo > hi THEN <<>>
    ELSE IF lo = hi THEN <<WAdd(initial, ds[lo])>>
    ELSE LET left == PrefixSums(initial, ds, lo, (lo + hi) \div 2)
         IN left \o PrefixSums(left[Len(left)], ds, ((lo + hi) \div 2) + 1, hi)

\* BitPacker4x::decompress_sorted
BitUnpackSorted(initial, buf, nb) == PrefixSums(initial, BitUnpack(buf, nb), 1, BLOCK_LEN)

\* ------------------------------------------------------------- compressors
\* the remainder of chunks_exact, each value as a varint
VarintTail(xs) == Concat([i \in 1..Len(xs) |-> VarintEncode(xs[i])])

RECURSIVE U32Compress(_)
\* U32Compressor::write_to: the bytes written
U32Compress(xs) ==
    IF Len(xs) >= BLOCK_LEN
    THEN LET chunk == SubSeq(xs, 1, BLOCK_LEN)
             nb == NumBits(chunk)
         IN <<nb>> \o BitPack(chunk, nb) \o U32Compress(SubSeq(xs, BLOCK_LEN + 1, Len(xs)))
    ELSE VarintTail(xs)

\* the remainder of chunks_exact, each value less the one before it (`last`
\* for the first) as a varint
VarintDeltaTail(last, xs) ==
    Concat([i \in 1..Len(xs) |->
                VarintEncode(WSub(xs[i], IF i = 1 THEN last ELSE xs[i - 1]))])

RECURSIVE U32DeltaCompressFrom(_, _)
U32DeltaCompressFrom(last, xs) ==
    IF Len(xs) >= BLOCK_LEN
    THEN LET chunk == SubSeq(xs, 1, BLOCK_LEN)
             nb == NumBitsSorted(last, chunk)
         IN <<nb>> \o BitPackSorted(last, chunk, nb)
                 \o U32DeltaCompressFrom(chunk[BLOCK_LEN], SubSeq(xs, BLOCK_LEN + 1, Len(xs)))
    ELSE VarintDeltaTail(last, xs)

\* U32DeltaCompressor::write_to: the bytes written (the input is sorted: the
\* assertion of line 42 is the caller's guard, see DeltaCompress and Build)
U32DeltaCompress(xs) == U32DeltaCompressFrom(WZero, xs)

\* ----------------------------------------------------------- decompressors
\* A decoder reads the source `bytes` from offset `pos` on, to its end: the
\* cursor of reader_in starts at the section's offset and is not bounded by
\* the section's length. The result of draining the iterator: the values
\* yielded, and whether a read or an assertion failed (a panic) on the way.
\* n varints read one after the other from offset pos (the n reads are split
\* in halves); the first failed read ends the run
RECURSIVE ReadVarints(_, _, _)
ReadVarints(bytes, pos, n) ==
    IF n = 0 THEN [ok |-> TRUE, out |-> <<>>, pos |-> pos]
    ELSE IF n = 1
    THEN LET r == ReadVarint(bytes, pos)
         IN IF r.ok THEN [ok |-> TRUE, out |-> <<r.val>>, pos |-> r.pos]
            ELSE [ok |-> FALSE, out |-> <<>>, pos |-> pos]
    ELSE LET a == ReadVarints(bytes, pos, n \div 2)
         IN IF ~a.ok THEN a
            ELSE LET b == ReadVarints(bytes, a.pos, n - (n \div 2))
                 IN [ok |-> b.ok, out |-> a.out \o b.out, pos |-> b.pos]

\* a decoder that takes a block only when more than BLOCK_LEN values remain
FullBlockStrict(remaining) == remaining > BLOCK_LEN

\* populate_next_chunk: a full block follows when BLOCK_LEN values or more
\* remain, the varint tail otherwise
FullBlock(remaining) == remaining >= BLOCK_LEN

\* the block limit a decoder accepts for num_bits: the delta decoder asserts
\* buf[0] < 32; the plain decoder takes what fits its 512-byte buffer
DeltaNumBitsOk(nb) == nb < 32
PlainNumBitsOk(nb) == (nb * BLOCK_LEN) \div 8 <= 4 * BLOCK_LEN

RECURSIVE U32DecompressFrom(_, _, _)
\* U32Decompressor: next / populate_next_chunk until the iterator ends
U32DecompressFrom(bytes, pos, remaining) ==
    IF FullBlock(remaining)
    THEN IF pos + 1 > Len(bytes) THEN [ok |-> FALSE, out |-> <<>>]
         ELSE LET nb == bytes[pos + 1]
                  nbytes == (nb * BLOCK_LEN) \div 8
              IN IF ~PlainNumBitsOk(nb) \/ pos + 1 + nbytes > Len(bytes)
                 THEN [ok |-> FALSE, out |-> <<>>]
                 ELSE LET chunk == BitUnpack(SubSeq(bytes, pos + 2, pos + 1 + nbytes), nb)
                          rest == U32DecompressFrom(bytes, pos + 1 + nbytes,
                                                    remaining - BLOCK_LEN)
                      IN [ok |-> rest.ok, out |-> chunk \o rest.out]
    ELSE LET t == ReadVarints(bytes, pos, remaining)
         IN IF t.ok THEN [ok |-> TRUE, out |-> t.out] ELSE [ok |-> FALSE, out |-> <<>>]

U32Decompress(bytes, pos, count) == U32DecompressFrom(bytes, pos, count)

\* the varint tail of the delta decoder: each value is the varint plus the
\* previous value
AddFrom(last, ds) == PrefixSums(last, ds, 1, Len(ds))

RECURSIVE U32DeltaDecompressFrom(_, _, _, _)
\* U32DeltaDecompressor: `last` is chunk[BLOCK_LEN - 1], 0 before any block
U32DeltaDecompressFrom(bytes, pos, remaining, last) ==
    IF FullBlock(remaining)
    THEN IF pos + 1 > Len(bytes) THEN [ok |-> FALSE, out |-> <<>>]
         ELSE LET nb == bytes[pos + 1]
                  nbytes == (nb * BLOCK_LEN) \div 8
              IN IF ~DeltaNumBitsOk(nb) \/ pos + 1 + nbytes > Len(bytes)
                 THEN [ok |-> FALSE, out |-> <<>>]
                 ELSE LET chunk == BitUnpackSorted(last,
                                       SubSeq(bytes, pos + 2, pos + 1 + nbytes), nb)
                          rest == U32DeltaDecompressFrom(bytes, pos + 1 + nbytes,
                                       remaining - BLOCK_LEN, chunk[BLOCK_LEN])
                      IN [ok |-> rest.ok, out |-> chunk \o rest.out]
    ELSE LET t == ReadVarints(bytes, pos, remaining)
         IN IF t.ok THEN [ok |-> TRUE, out |-> AddFrom(last, t.out)]
            ELSE [ok |-> FALSE, out |-> <<>>]

U32DeltaDecompress(bytes, pos, count) == U32DeltaDecompressFrom(bytes, pos, count, WZero)

\* ---------------------------------------------------------------- trigrams
\* A trigram is a triple of bytes <<b0, b1, b2>>.
\* the three bytes packed with the first byte lowest
TrigramIDLittleEndian(t) == t[1] + t[2] * 256 + t[3] * 65536
\* From<Trigram> for TrigramID
TrigramID(t) == t[1] * 65536 + t[2] * 256 + t[3]
\* From<TrigramID> for Trigram
TrigramFromID(u) == <<(u \div 65536) % 256, (u \div 256) % 256, u % 256>>
\* the derived Ord of Trigram([u8; 3]): lexicographic on the bytes
TrigramLess(t1, t2) ==
    \/ t1[1] < t2[1]
    \/ t1[1] = t2[1] /\ t1[2] < t2[2]
    \/ t1[1] = t2[1] /\ t1[2] = t2[2] /\ t1[3] < t2[3]

\* keys iterated in descending order
RECURSIVE SortTrigramsReversed(_)
SortTrigramsReversed(S) ==
    IF S = {} THEN <<>>
    ELSE LET m == CHOOSE t \in S : \A u \in S \ {t} : TrigramLess(u, t)
         IN <<m>> \o SortTrigramsReversed(S \ {m})

RECURSIVE SortTrigrams(_)
\* the keys of a BTreeMap<Trigram, _> in iteration order
SortTrigrams(S) ==
    IF S = {} THEN <<>>
    ELSE LET m == CHOOSE t \in S : \A u \in S \ {t} : TrigramLess(t, u)
         IN <<m>> \o SortTrigrams(S \ {m})

RECURSIVE SortInts(_)
\* Vec<u32>::sort of distinct values
SortInts(S) ==
    IF S = {} THEN <<>>
    ELSE LET m == CHOOSE x \in S : \A y \in S : x <= y
         IN <<m>> \o SortInts(S \ {m})

RECURSIVE BinarySearchIntsIn(_, _, _, _)
\* slice::binary_search over u32s: the 0-based index of a match, or -1 (Err)
BinarySearchIntsIn(xs, x, left, right) ==
    IF left >= right THEN -1
    ELSE LET mid == left + ((right - left) \div 2)
         IN IF xs[mid + 1] < x THEN BinarySearchIntsIn(xs, x, mid + 1, right)
            ELSE IF x < xs[mid + 1] THEN BinarySearchIntsIn(xs, x, left, mid)
            ELSE mid

BinarySearchInts(xs, x) == BinarySearchIntsIn(xs, x, 0, Len(xs))

RECURSIVE BinarySearchTrigramsIn(_, _, _, _)
\* slice::binary_search over trigrams: the 0-based index of a match, or -1
BinarySearchTrigramsIn(xs, t, left, right) ==
    IF left >= right THEN -1
    ELSE LET mid == left + ((right - left) \div 2)
         IN IF TrigramLess(xs[mid + 1], t)
            THEN BinarySearchTrigramsIn(xs, t, mid + 1, right)
            ELSE IF TrigramLess(t, xs[mid + 1])
            THEN BinarySearchTrigramsIn(xs, t, left, mid)
            ELSE mid

BinarySearchTrigrams(xs, t) == BinarySearchTrigramsIn(xs, t, 0, Len(xs))

\* --------------------------------------------------------------- extractor
\* content.array_windows::<3>()
Windows(c) == [i \in 1..Max(Len(c) - 2, 0) |-> <<c[i], c[i + 1], c[i + 2]>>]

\* the sentinel-padded trigrams at the end of the document: the windows of
\* [y, z, 0xFF, 0xFF] for two bytes or more, of [z, 0xFF, 0xFF] for one
PartialTrigrams(c) ==
    LET n == Len(c)
    IN IF n >= 2 THEN Windows(<<c[n - 1], c[n], SENTINEL, SENTINEL>>)
       ELSE IF n = 1 THEN Windows(<<c[1], SENTINEL, SENTINEL>>)
       ELSE <<>>

\* trigrams.clone().skip(3).chain(partial_trigrams)
Successors(c) ==
    LET ts == Windows(c)
    IN (IF Len(ts) > 3 THEN SubSeq(ts, 4, Len(ts)) ELSE <<>>) \o PartialTrigrams(c)

\* IndexBuilder::extract_trigrams: the map trigram -> set of successors
ExtractTrigrams(c) ==
    LET ts == Windows(c)
        ss == Successors(c)
        pairs == Min(Len(ts), Len(ss))
        zipped == {ts[k] : k \in 1..pairs}
        partial == Range(PartialTrigrams(c))
    IN [t \in zipped \cup partial |->
            {ss[k] : k \in {j \in 1..pairs : ts[j] = t}}]

\* ----------------------------------------------------------------- builder
\* an allocator that hands out a DocID without advancing
AllocDocIDStuck(next) == [id |-> next, next |-> next]

\* doc_ids.next(): the DocID handed out and the allocator's next value
AllocDocID(next) == [id |-> next, next |-> next + 1]

\* a loop of add_doc that takes a fresh DocID for every trigram of the
\* document, in trigram order, as the earlier builders did
AddDocCombinedPerTrigram(comb, doc_id, res) ==
    [t \in DOMAIN comb \cup DOMAIN res |->
        (IF t \in DOMAIN comb THEN comb[t] ELSE <<>>)
        \o (IF t \in DOMAIN res
            THEN <<[id |-> doc_id + Cardinality({u \in DOMAIN res : TrigramLess(u, t)}),
                    succ |-> res[t]]>>
            ELSE <<>>)]

\* the loop of add_doc: every (trigram, set) of the extractor's map is pushed
\* onto the trigram's list with the call's one doc_id
AddDocCombined(comb, doc_id, res) ==
    [t \in DOMAIN comb \cup DOMAIN res |->
        (IF t \in DOMAIN comb THEN comb[t] ELSE <<>>)
        \o (IF t \in DOMAIN res THEN <<[id |-> doc_id, succ |-> res[t]]>> ELSE <<>>)]

\* little-endian bytes of a value below 2^31
LE(v, n) == [k \in 1..n |-> IF k <= 4 THEN (v \div 256^(k - 1)) % 256 ELSE 0]

\* build_unique_successors: the sorted distinct successors of the posting
UniqueSuccessors(docs) ==
    SortInts({TrigramID(t) : t \in UNION {docs[i].succ : i \in 1..Len(docs)}})

\* a matrix value without the document's offset
MatrixValueNoOffset(local_doc_id, columns, pos) == pos

\* one matrix value: the successor's position plus local_doc_id * |U|
MatrixValue(local_doc_id, columns, pos) == pos + local_doc_id * columns

\* a matrix that leaves out the last document of the posting
MatrixWithoutLastDoc(U, docs) ==
    Concat([d \in 1..(Len(docs) - 1) |->
        SortInts({MatrixValue(d - 1, Len(U), BinarySearchInts(U, TrigramID(t)))
                    : t \in docs[d].succ})])

\* build_successors: per document, its successors' values, sorted
Matrix(U, docs) ==
    Concat([d \in 1..Len(docs) |->
        SortInts({MatrixValue(d - 1, Len(U), BinarySearchInts(U, TrigramID(t)))
                    : t \in docs[d].succ})])

\* build_unique_docs
UniqueDocs(docs) == [d \in 1..Len(docs) |-> docs[d].id]

Ws(xs) == [i \in 1..Len(xs) |-> W(xs[i])]

\* the count build_unique_successors reports: the length of buf_u32, which
\* at that point still holds what the previous posting left in it
UniqueSuccessorsCount(U, buf_u32) == Len(buf_u32)

\* the trigram field of the posting header; build_posting never sets it and
\* the file format names the posting's trigram
HeaderTrigram(t) == t

\* PostingHeader::write_to
PostingHeaderBytes(h) ==
    h.trigram \o LE(h.successors_count, 4) \o LE(h.successors_bytes, 4)
              \o LE(h.matrix_count, 4) \o LE(h.matrix_bytes, 4)
              \o LE(h.docs_count, 4) \o LE(h.docs_bytes, 4)

\* TrigramPostingStats::total_bytes
TotalBytes(header_bytes, u_bytes, s_bytes, d_bytes) ==
    header_bytes + u_bytes + s_bytes + d_bytes

\* build_posting once the three sequences are computed: the header and the
\* three sub-streams U, S, D; buf_u32 is the builder's scratch vector as the
\* previous posting left it
WritePosting(t, U, S, D, buf_u32) ==
    LET ub == U32DeltaCompress(Ws(U))
        sb == U32DeltaCompress(Ws(S))
        db == U32DeltaCompress(Ws(D))
        h == [trigram |-> HeaderTrigram(t),
              successors_count |-> UniqueSuccessorsCount(U, buf_u32),
              successors_bytes |-> Len(ub),
              matrix_count |-> Len(S), matrix_bytes |-> Len(sb),
              docs_count |-> Len(D), docs_bytes |-> Len(db)]
        hb == PostingHeaderBytes(h)
    IN [trigram |-> t, U |-> U, S |-> S, D |-> D, header |-> h,
        sorted |-> IsSortedW(Ws(U)) /\ IsSortedW(Ws(S)) /\ IsSortedW(Ws(D)),
        bytes |-> hb \o ub \o sb \o db,
        total_bytes |-> TotalBytes(Len(hb), Len(ub), Len(sb), Len(db))]

\* build_posting
BuildPosting(t, docs, buf_u32) ==
    WritePosting(t, UniqueSuccessors(docs), Matrix(UniqueSuccessors(docs), docs),
                 UniqueDocs(docs), buf_u32)

RECURSIVE BuildPostings(_, _, _, _)
\* the loop of build over combined in ascending trigram order
BuildPostings(comb, keys, i, buf_u32) ==
    IF i > Len(keys) THEN <<>>
    ELSE LET p == BuildPosting(keys[i], comb[keys[i]], buf_u32)
         IN <<p>> \o BuildPostings(comb, keys, i + 1, p.D)

\* a table that stores each posting's own length instead of the running sum
PostingEndsPerPosting(ps, i) == [k \in 1..i |-> ps[k].total_bytes]

RECURSIVE PostingEnds(_, _)
\* posting_ends: the cumulative postings_len after each posting
PostingEnds(ps, i) ==
    IF i = 0 THEN <<>>
    ELSE LET prev == PostingEnds(ps, i - 1)
         IN prev \o <<(IF i = 1 THEN 0 ELSE prev[i - 1]) + ps[i].total_bytes>>

\* what build adds to offsets_len for each entry of the posting-ends table
OffsetsLenStep == 4

\* the num_docs field of the footer; build's header literal leaves it out and
\* the file format requires the number of documents added
HeaderNumDocs(num_docs) == num_docs

\* IndexHeader::write_to with Section::write_to
IndexHeaderBytes(h) ==
    LE(h.num_docs, 4)
    \o LE(h.trigram_postings.offset, 8) \o LE(h.trigram_postings.len, 8)
    \o LE(h.unique_trigrams.offset, 8) \o LE(h.unique_trigrams.len, 8)
    \o LE(h.trigram_posting_ends.offset, 8) \o LE(h.trigram_posting_ends.len, 8)

Section(offset, len) == [offset |-> offset, len |-> len]

\* the tables and the footer build writes after the postings `ps`
WriteIndex(keys, ps, num_docs) ==
    LET ends == PostingEnds(ps, Len(ps))
        postings_len == IF ends = <<>> THEN 0 ELSE ends[Len(ends)]
        unique_trigrams_len == 3 * Len(keys)
        offsets_len == OffsetsLenStep * Len(keys)
        header == [num_docs |-> HeaderNumDocs(num_docs),
                   trigram_postings |-> Section(0, postings_len),
                   unique_trigrams |-> Section(postings_len, unique_trigrams_len),
                   trigram_posting_ends |->
                       Section(postings_len + unique_trigrams_len, offsets_len)]
    IN [ok |-> \A i \in 1..Len(ps) : ps[i].sorted,
        postings |-> ps, ends |-> ends, header |-> header,
        bytes |-> Concat([i \in 1..Len(ps) |-> ps[i].bytes])
                  \o Concat(keys)
                  \o Concat([i \in 1..Len(ends) |-> LE(ends[i], 8)])
                  \o IndexHeaderBytes(header)]

\* IndexBuilder::build: [ok, postings, ends, header, bytes]; ok is FALSE when
\* a compressor's sortedness assertion fails
BuildIndex(comb, num_docs) ==
    LET keys == SortTrigrams(DOMAIN comb)
    IN WriteIndex(keys, BuildPostings(comb, keys, 1, <<>>), num_docs)

\* --------------------------------------- the builder, hash order explicit
\* FxHashMap and FxHashSet iterate in an order the program does not choose.
\* The operators below are add_doc and build with that order as an input:
\* each call draws one of HashOrders and iterates every hash container it
\* walks in that order.
HashOrders == {"ascending", "descending", "rotated"}
Reverse(xs) == [k \in 1..Len(xs) |-> xs[Len(xs) + 1 - k]]
Rotate(xs) == IF xs = <<>> THEN xs ELSE Tail(xs) \o <<Head(xs)>>

\* the elements of a hash set of trigrams (the keys of a hash map) as one
\* iteration yields them
IterationOrder(S, order) ==
    CASE order = "ascending" -> SortTrigrams(S)
      [] order = "descending" -> Reverse(SortTrigrams(S))
      [] order = "rotated" -> Rotate(SortTrigrams(S))

\* a vector left in the order it was filled in
SortVecSkipped(xs) == xs

\* Vec<u32>::sort and slice::sort on the distinct values collected from a set
SortVec(xs) == SortInts(Range(xs))

\* a loop of add_doc that puts the new entry at the front of the list
AddDocCombinedInFront(comb, doc_id, res, keys, i) ==
    [u \in DOMAIN comb \cup DOMAIN res |->
        (IF u \in DOMAIN res THEN <<[id |-> doc_id, succ |-> res[u]]>> ELSE <<>>)
        \o (IF u \in DOMAIN comb THEN comb[u] ELSE <<>>)]

RECURSIVE AddDocCombinedIn(_, _, _, _, _)
\* the loop of add_doc over the extractor's map, key by key in iteration
\* order: push onto the trigram's list, or insert a list of one
AddDocCombinedIn(comb, doc_id, res, keys, i) ==
    IF i > Len(keys) THEN comb
    ELSE AddDocCombinedIn(
             [u \in DOMAIN comb \cup {keys[i]} |->
                 IF u = keys[i]
                 THEN (IF u \in DOMAIN comb THEN comb[u] ELSE <<>>)
                      \o <<[id |-> doc_id, succ |-> res[u]]>>
                 ELSE comb[u]],
             doc_id, res, keys, i + 1)

\* build_unique_successors: the set collected from the docs, copied into a
\* vector in iteration order, then sorted
TrigramIDsOf(ts) == [k \in 1..Len(ts) |-> TrigramID(ts[k])]
UniqueSuccessorsIn(docs, order) ==
    SortVec(TrigramIDsOf(IterationOrder(UNION {docs[i].succ : i \in 1..Len(docs)}, order)))

\* build_successors: each document's values appended in the iteration order
\* of its successor set, then that tail of the buffer sorted
MatrixRow(U, local_doc_id, ts) ==
    SortVec([k \in 1..Len(ts) |->
        MatrixValue(local_doc_id, Len(U), BinarySearchInts(U, TrigramID(ts[k])))])
MatrixIn(U, docs, order) ==
    Concat([d \in 1..Len(docs) |->
        MatrixRow(U, d - 1, IterationOrder(docs[d].succ, order))])

\* build_posting
WritePostingIn(t, U, docs, buf_u32, order) ==
    WritePosting(t, U, MatrixIn(U, docs, order), UniqueDocs(docs), buf_u32)
BuildPostingIn(t, docs, buf_u32, order) ==
    WritePostingIn(t, UniqueSuccessorsIn(docs, order), docs, buf_u32, order)

RECURSIVE BuildPostingsIn(_, _, _, _, _)
\* the loop of build over combined in ascending trigram order
BuildPostingsIn(comb, keys, i, buf_u32, order) ==
    IF i > Len(keys) THEN <<>>
    ELSE <<BuildPostingIn(keys[i], comb[keys[i]], buf_u32, order)>>
         \o BuildPostingsIn(comb, keys, i + 1, UniqueDocs(comb[keys[i]]), order)

\* IndexBuilder::build
BuildIndexIn(comb, num_docs, order) ==
    WriteIndex(SortTrigrams(DOMAIN comb),
               BuildPostingsIn(comb, SortTrigrams(DOMAIN comb), 1, <<>>, order),
               num_docs)

\* ------------------------------------------- build_successors, full width
\* The matrix values in the widths of the code: local_doc_id and
\* unique_successors.len() are usize (64 bits), the position t and the value
\* pushed are u32. A posting is given as the number of its leading documents
\* whose successor set is empty (they push nothing), the number of unique
\* successors, and the sets of successor positions of the documents after.
RECURSIVE LTimes(_, _)
\* local_doc_id * unique_successors.len(): a u64 times a small number
LTimes(a, n) == IF n = 0 THEN L(0) ELSE LAdd(LTimes(a, n - 1), a)

\* `offset as u32`: the low 32 bits of the usize, in every build
OffsetAsU32(offset) == [ok |-> TRUE, val |-> offset[2]]

\* t + offset as u32: with overflow checks an overflowing u32 sum panics,
\* without them it wraps
MatrixValueU32(local_doc_id, columns, pos, overflow_checks) ==
    LET offset == OffsetAsU32(LTimes(local_doc_id, columns))
        sum == WAdd(W(pos), offset.val)
    IN [ok |-> offset.ok /\ ~(overflow_checks /\ WLess(sum, offset.val)), val |-> sum]

RECURSIVE SortWs(_)
\* slice::sort of distinct u32 values
SortWs(S) ==
    IF S = {} THEN <<>>
    ELSE LET m == CHOOSE x \in S : \A y \in S : WLeq(x, y)
         IN <<m>> \o SortWs(S \ {m})

\* build_successors over the documents after the leading ones: [ok, buf];
\* ok is FALSE when an addition panics or the compressor's is_sorted
\* assertion fails on the buffer
BuildSuccessorsU32(skipped, columns, sets, overflow_checks) ==
    LET value(d, pos) == MatrixValueU32(LAdd(skipped, L(d - 1)), columns, pos,
                                        overflow_checks)
        buf == Concat([d \in 1..Len(sets) |->
                          SortWs({value(d, pos).val : pos \in sets[d]})])
    IN [ok |-> /\ \A d \in 1..Len(sets) : \A pos \in sets[d] : value(d, pos).ok
               /\ IsSortedW(buf),
        buf |-> buf]

\* ------------------------------------------------------------------ reader
\* a little-endian integer of n bytes at offset pos; a value of 2^31 or more
\* reads as 2^31 - 1, the largest the model can hold
ReadLE(bytes, pos, n) ==
    IF (\E k \in 5..n : bytes[pos + k] # 0) \/ (n >= 4 /\ bytes[pos + 4] >= 128)
    THEN 2147483647
    ELSE LET b(k) == IF k <= n THEN bytes[pos + k] ELSE 0
         IN b(1) + 256 * b(2) + 65536 * b(3) + 16777216 * b(4)

\* Section::narrow: the assertion, and the section returned
NarrowOk(self, child) == child.offset + child.len <= self.len
Narrow(self, child) == Section(self.offset + child.offset, child.len)

\* Section::narrow on u64 fields. The two additions are plain `+`: with
\* overflow checks on (a debug build) an overflowing sum panics, with them
\* off (a release build) it wraps. In the files build writes all values are
\* far below 2^31, where NarrowOk and Narrow above say the same.
NarrowU64(self, child, overflow_checks) ==
    IF overflow_checks /\ LOverflows(child.offset, child.len) THEN [status |-> "panic"]
    ELSE IF ~LLeq(LAdd(child.offset, child.len), self.len) THEN [status |-> "panic"]
    ELSE IF overflow_checks /\ LOverflows(self.offset, child.offset)
    THEN [status |-> "panic"]
    ELSE [status |-> "ok",
          section |-> Section(LAdd(self.offset, child.offset), child.len)]

NoIndex == [status |-> "none"]

\* IndexHeader::read_from at the last INDEX_HEADER_SIZE bytes
ReadIndexHeader(bytes) ==
    LET p == Len(bytes) - INDEX_HEADER_SIZE
    IN [num_docs |-> ReadLE(bytes, p, 4),
        trigram_postings |-> Section(ReadLE(bytes, p + 4, 8), ReadLE(bytes, p + 12, 8)),
        unique_trigrams |-> Section(ReadLE(bytes, p + 20, 8), ReadLE(bytes, p + 28, 8)),
        trigram_posting_ends |->
            Section(ReadLE(bytes, p + 36, 8), ReadLE(bytes, p + 44, 8))]

\* the assertions of IndexHeader::read_from and Index::new on the footer
HeaderAsserts(h) ==
    /\ h.unique_trigrams.len % 3 = 0
    /\ h.trigram_posting_ends.len % 4 = 0
    /\ h.unique_trigrams.len \div 3 = h.trigram_posting_ends.len \div 4

\* Index::new over a Mem source: "ok" with the reader, "error" for an Err
\* result, "panic" for a failed assertion or an out-of-range read
IndexNew(bytes) ==
    IF Len(bytes) < INDEX_HEADER_SIZE THEN [status |-> "panic"]
    ELSE LET h == ReadIndexHeader(bytes)
             n == h.unique_trigrams.len \div 3
             toff == h.unique_trigrams.offset
             eoff == h.trigram_posting_ends.offset
         IN IF ~HeaderAsserts(h) THEN [status |-> "panic"]
            ELSE IF n > 0 /\ (toff > Len(bytes) \/ eoff > Len(bytes))
                 THEN [status |-> "panic"]
            ELSE IF toff + 3 * n > Len(bytes) \/ eoff + 8 * n > Len(bytes)
                 THEN [status |-> "error"]
            ELSE [status |-> "ok",
                  header |-> h,
                  unique_trigrams |->
                      [k \in 1..n |-> SubSeq(bytes, toff + 3 * k - 2, toff + 3 * k)],
                  trigram_posting_ends |->
                      [k \in 1..n |-> ReadLE(bytes, eoff + 8 * (k - 1), 8)]]

\* a trigram_section that falls back on the first posting when the binary
\* search misses
TrigramSectionNearest(idx, t) ==
    LET k == Max(BinarySearchTrigrams(idx.unique_trigrams, t), 0)
    IN IF idx.unique_trigrams = <<>> THEN [found |-> FALSE]
       ELSE LET start == IF k = 0 THEN 0 ELSE idx.trigram_posting_ends[k]
                end == idx.trigram_posting_ends[k + 1]
            IN [found |-> TRUE, section |-> Section(start, end - start)]

\* Index::trigram_section: the posting's section, or none (index -1)
TrigramSection(idx, t) ==
    LET k == BinarySearchTrigrams(idx.unique_trigrams, t)
    IN IF k < 0 THEN [found |-> FALSE]
       ELSE LET start == IF k = 0 THEN 0 ELSE idx.trigram_posting_ends[k]
                end == idx.trigram_posting_ends[k + 1]
            IN [found |-> TRUE, section |-> Section(start, end - start)]

\* PostingHeader::read_from at offset pos
ReadPostingHeader(bytes, pos) ==
    [trigram |-> SubSeq(bytes, pos + 1, pos + 3),
     successors_count |-> ReadLE(bytes, pos + 3, 4),
     successors_bytes |-> ReadLE(bytes, pos + 7, 4),
     matrix_count |-> ReadLE(bytes, pos + 11, 4),
     matrix_bytes |-> ReadLE(bytes, pos + 15, 4),
     docs_count |-> ReadLE(bytes, pos + 19, 4),
     docs_bytes |-> ReadLE(bytes, pos + 23, 4)]

SuccessorsSection(h) == Section(POSTING_HEADER_SIZE, h.successors_bytes)
MatrixSection(h) == Section(POSTING_HEADER_SIZE + h.successors_bytes, h.matrix_bytes)
DocsSection(h) ==
    Section(POSTING_HEADER_SIZE + h.successors_bytes + h.matrix_bytes, h.docs_bytes)

\* the query's outcome once its iterator is drained: the DocIDs yielded and
\* "ok", or "panic" when an unwrap or an assertion failed on the way
Yield(out) == [status |-> "ok", out |-> out]
Panic(out) == [status |-> "panic", out |-> out]
Outcome(ok, out) == IF ok THEN Yield(out) ELSE Panic(out)

\* the target prefix of plan B: the remainder's bytes, big-endian
RECURSIVE TargetPrefix(_, _)
TargetPrefix(rem, n) == IF n = 0 THEN 0 ELSE TargetPrefix(rem, n - 1) * 256 + rem[n]

RECURSIVE PrefixRange(_, _, _, _, _)
\* the loop of plan B over the unique successors: (start, end)
PrefixRange(us, shift, target, i, se) ==
    IF i > Len(us) THEN se
    ELSE LET shifted == WShr(us[i], shift)
             next == IF shifted < target THEN <<i, i>>
                     ELSE IF shifted = target THEN <<se[1], i>>
                     ELSE se
         IN PrefixRange(us, shift, target, i + 1, next)

\* PostingSearcher::matrix: the pairs (i / columns, i % columns)
MatrixPairs(raw, columns) ==
    [k \in 1..Len(raw) |-> <<WVal(raw[k]) \div columns, WVal(raw[k]) % columns>>]

RECURSIVE FilterLocalDocs(_, _, _, _)
\* filter_map: the local doc index of every pair whose successor index is in
\* start..end-1 (plan B), or equals the target index start = end - 1 (plan C)
FilterLocalDocs(pairs, start, end, k) ==
    IF k > Len(pairs) THEN <<>>
    ELSE (IF start <= pairs[k][2] /\ pairs[k][2] < end THEN <<pairs[k][1]>> ELSE <<>>)
         \o FilterLocalDocs(pairs, start, end, k + 1)

RECURSIVE Dedup(_)
\* Itertools::dedup: consecutive equal elements collapse into one
Dedup(xs) ==
    IF Len(xs) <= 1 THEN xs
    ELSE IF xs[1] = xs[2] THEN Dedup(Tail(xs))
    ELSE <<xs[1]>> \o Dedup(Tail(xs))

\* docs().enumerate()
Enumerate(ds) == [k \in 1..Len(ds) |-> <<k - 1, WVal(ds[k])>>]

\* a mapper that hands out the DocIDs in order, one per required index,
\* without looking for the index
DocIDMapperInOrder(pairs, pos, ldis, i) ==
    [k \in 1..Min(Len(ldis), Len(pairs)) |-> pairs[k][2]]

RECURSIVE DocIDMapper(_, _, _, _)
\* DocIDMapper::next until it returns None: for each required local index the
\* doc-id iterator is advanced to the pair that carries it; `pos` pairs are
\* consumed already
DocIDMapper(pairs, pos, ldis, i) ==
    IF i > Len(ldis) THEN <<>>
    ELSE LET hits == {k \in (pos + 1)..Len(pairs) : pairs[k][1] = ldis[i]}
         IN IF hits = {} THEN <<>>
            ELSE LET k == CHOOSE x \in hits : \A y \in hits : x <= y
                 IN <<pairs[k][2]>> \o DocIDMapper(pairs, k, ldis, i + 1)

\* a drain that yields the positions in the docs stream, not the DocIDs
DocIDsAsPositions(ds) == [k \in 1..Len(ds) |-> k - 1]

\* the DocIDs of the docs stream as decoded
DocIDs(ds) == [k \in 1..Len(ds) |-> WVal(ds[k])]

\* the local doc indices handed to DocIDMapper: plan B dedups them, plan C
\* does not
LocalDocs(pairs, start, end, dedup) ==
    IF dedup THEN Dedup(FilterLocalDocs(pairs, start, end, 1))
    ELSE FilterLocalDocs(pairs, start, end, 1)

\* the filtered matrix mapped through the docs: the tail of plans B and C
\* DocIDMapper over the matrix `m` and the docs `d` as decoded
MapDecoded(m, d, columns, start, end, dedup) ==
    Outcome(m.ok /\ d.ok,
            DocIDMapper(Enumerate(d.out), 0,
                        LocalDocs(MatrixPairs(m.out, columns), start, end, dedup), 1))

\* the filtered matrix mapped through the docs: the tail of plans B and C
MapMatrix(bytes, msec, dsec, h, start, end, dedup) ==
    MapDecoded(U32DeltaDecompress(bytes, msec.offset, h.matrix_count),
               U32DeltaDecompress(bytes, dsec.offset, h.docs_count),
               h.successors_count, start, end, dedup)

\* the docs `d` as decoded, drained
DocsDecoded(d) == Outcome(d.ok, DocIDs(d.out))

\* plan A: the docs of the posting
SearchDocs(bytes, dsec, h) ==
    DocsDecoded(U32DeltaDecompress(bytes, dsec.offset, h.docs_count))

\* plan B over the unique successors `u` as decoded
SearchPrefixIn(u, bytes, msec, dsec, h, rem) ==
    LET se == PrefixRange(u.out, (3 - Len(rem)) * 8, TargetPrefix(rem, Len(rem)),
                          1, <<0, 0>>)
    IN IF ~u.ok THEN Panic(<<>>)
       ELSE IF se[1] = se[2] THEN Yield(<<>>)
       ELSE MapMatrix(bytes, msec, dsec, h, se[1], se[2], TRUE)

\* plan B: the successors that share the remainder as a prefix
SearchPrefix(bytes, usec, msec, dsec, h, rem) ==
    SearchPrefixIn(U32DeltaDecompress(bytes, usec.offset, h.successors_count),
                   bytes, msec, dsec, h, rem)

\* a plan C that falls back on the docs of the posting when the target is
\* not among the unique successors
SearchExactInOrDocs(u, bytes, msec, dsec, h, rem) ==
    LET target == W(TrigramID(SubSeq(rem, 1, 3)))
        hits == {k \in 1..Len(u.out) : u.out[k] = target}
        first == (CHOOSE x \in hits : \A y \in hits : x <= y) - 1
    IN IF hits = {} THEN SearchDocs(bytes, dsec, h)
       ELSE MapMatrix(bytes, msec, dsec, h, first, first + 1, FALSE)

\* plan C over the unique successors `u` as decoded
SearchExactIn(u, bytes, msec, dsec, h, rem) ==
    LET target == W(TrigramID(SubSeq(rem, 1, 3)))
        hits == {k \in 1..Len(u.out) : u.out[k] = target}
        first == (CHOOSE x \in hits : \A y \in hits : x <= y) - 1
    IN IF hits = {} THEN Outcome(u.ok, <<>>)
       ELSE MapMatrix(bytes, msec, dsec, h, first, first + 1, FALSE)

\* plan C: the successor that equals the first three bytes of the remainder
SearchExact(bytes, usec, msec, dsec, h, rem) ==
    SearchExactIn(U32DeltaDecompress(bytes, usec.offset, h.successors_count),
                  bytes, msec, dsec, h, rem)

\* the outcome `r` of plan B or C, given whether the narrows of the matrix and
\* the docs sections pass their assertions: they are only reached when the
\* plan goes on to the matrix
Narrowed(r, ok) ==
    IF r.status = "ok" /\ r.out = <<>> THEN r ELSE IF ok THEN r ELSE Panic(<<>>)

\* PostingSearcher::search
Search(bytes, postings, posting, h, rem) ==
    LET usec == Narrow(postings, Narrow(posting, SuccessorsSection(h)))
        msec == Narrow(postings, Narrow(posting, MatrixSection(h)))
        dsec == Narrow(postings, Narrow(posting, DocsSection(h)))
        NarrowsOk(child) ==
            NarrowOk(posting, child) /\ NarrowOk(postings, Narrow(posting, child))
    IN IF Len(rem) = 0
       THEN (IF NarrowsOk(DocsSection(h)) THEN SearchDocs(bytes, dsec, h) ELSE Panic(<<>>))
       ELSE IF ~NarrowsOk(SuccessorsSection(h)) THEN Panic(<<>>)
       ELSE IF Len(rem) <= 2
       THEN Narrowed(SearchPrefix(bytes, usec, msec, dsec, h, rem),
                     NarrowsOk(MatrixSection(h)) /\ NarrowsOk(DocsSection(h)))
       ELSE Narrowed(SearchExact(bytes, usec, msec, dsec, h, rem),
                     NarrowsOk(MatrixSection(h)) /\ NarrowsOk(DocsSection(h)))

\* the inclusive range 0..=num_docs
AllDocsInclusive(n) == [k \in 1..(n + 1) |-> k - 1]

\* the range 0..num_docs a short query returns
AllDocs(n) == [k \in 1..n |-> k - 1]

\* Index::candidates, drained
Candidates(idx, bytes, q) ==
    IF Len(q) < 3 THEN Yield(AllDocs(idx.header.num_docs))
    ELSE LET ts == TrigramSection(idx, SubSeq(q, 1, 3))
         IN IF ~ts.found THEN Yield(<<>>)
            ELSE IF ~NarrowOk(idx.header.trigram_postings, ts.section)
                 THEN Panic(<<>>)
            ELSE LET abs == Narrow(idx.header.trigram_postings, ts.section)
                 IN IF abs.offset + POSTING_HEADER_SIZE > Len(bytes) THEN Panic(<<>>)
                    ELSE Search(bytes, idx.header.trigram_postings, ts.section,
                                ReadPostingHeader(bytes, abs.offset),
                                SubSeq(q, 4, Len(q)))

\* ---------------------------------------------------- iterators, undrained
\* What candidates returns before any item is pulled: the plan, the counts
\* and the filter it captured, and the cursors of its own that reader_in
\* created for the docs and the matrix streams. Nothing of the two streams
\* is read until the first pull.
NoCursors == [docs |-> 0, matrix |-> 0]
IterOf(kind, h, start, end, dedup, cursors) ==
    [status |-> "ok", kind |-> kind,
     docs_count |-> h.docs_count, matrix_count |-> h.matrix_count,
     columns |-> h.successors_count,
     start |-> start, end |-> end, dedup |-> dedup, cursors |-> cursors]
NoHeader == [docs_count |-> 0, matrix_count |-> 0, successors_count |-> 0]
EmptyIter == IterOf("empty", NoHeader, 0, 0, FALSE, NoCursors)
RangeIter(n) == IterOf("range", NoHeader, 0, n, FALSE, NoCursors)
PanicIter == [status |-> "panic"]

\* Cursor::new_in for the docs and the matrix sections
CursorsNewIn(msec, dsec) == [docs |-> dsec.offset, matrix |-> msec.offset]

\* plans B and C once the unique successors `u` are decoded, which search
\* does before it returns
NewSearchIn(u, h, rem, msec, dsec, ok) ==
    IF ~u.ok THEN PanicIter
    ELSE IF Len(rem) <= 2
    THEN LET se == PrefixRange(u.out, (3 - Len(rem)) * 8,
                               TargetPrefix(rem, Len(rem)), 1, <<0, 0>>)
         IN IF se[1] = se[2] THEN EmptyIter
            ELSE IF ~ok THEN PanicIter
            ELSE IterOf("mapped", h, se[1], se[2], TRUE, CursorsNewIn(msec, dsec))
    ELSE LET target == W(TrigramID(SubSeq(rem, 1, 3)))
             hits == {k \in 1..Len(u.out) : u.out[k] = target}
             first == (CHOOSE x \in hits : \A y \in hits : x <= y) - 1
         IN IF hits = {} THEN EmptyIter
            ELSE IF ~ok THEN PanicIter
            ELSE IterOf("mapped", h, first, first + 1, FALSE, CursorsNewIn(msec, dsec))

\* PostingSearcher::search up to the iterator it returns
NewSearch(bytes, postings, posting, h, rem) ==
    LET usec == Narrow(postings, Narrow(posting, SuccessorsSection(h)))
        msec == Narrow(postings, Narrow(posting, MatrixSection(h)))
        dsec == Narrow(postings, Narrow(posting, DocsSection(h)))
        NarrowsOk(child) ==
            NarrowOk(posting, child) /\ NarrowOk(postings, Narrow(posting, child))
    IN IF Len(rem) = 0
       THEN (IF NarrowsOk(DocsSection(h))
             THEN IterOf("docs", h, 0, 0, FALSE, CursorsNewIn(msec, dsec))
             ELSE PanicIter)
       ELSE IF ~NarrowsOk(SuccessorsSection(h)) THEN PanicIter
       ELSE NewSearchIn(U32DeltaDecompress(bytes, usec.offset, h.successors_count),
                        h, rem, msec, dsec,
                        NarrowsOk(MatrixSection(h)) /\ NarrowsOk(DocsSection(h)))

\* Index::candidates up to the iterator it returns
NewCandidates(idx, bytes, q) ==
    IF Len(q) < 3 THEN RangeIter(idx.header.num_docs)
    ELSE LET ts == TrigramSection(idx, SubSeq(q, 1, 3))
         IN IF ~ts.found THEN EmptyIter
            ELSE IF ~NarrowOk(idx.header.trigram_postings, ts.section) THEN PanicIter
            ELSE LET abs == Narrow(idx.header.trigram_postings, ts.section)
                 IN IF abs.offset + POSTING_HEADER_SIZE > Len(bytes) THEN PanicIter
                    ELSE NewSearch(bytes, idx.header.trigram_postings, ts.section,
                                   ReadPostingHeader(bytes, abs.offset),
                                   SubSeq(q, 4, Len(q)))

\* the first pull of an iterator: its decoders read their streams through
\* the cursors `c` and buffer what they decode (a stream of fewer than
\* BLOCK_LEN values is decoded by one populate_next_chunk); the outcome is
\* everything the iterator has left to yield
FirstPull(bytes, it, c) ==
    CASE it.kind = "range" -> Yield(AllDocs(it.end))
      [] it.kind = "empty" -> Yield(<<>>)
      [] it.kind = "docs" ->
            DocsDecoded(U32DeltaDecompress(bytes, c.docs, it.docs_count))
      [] it.kind = "mapped" ->
            MapDecoded(U32DeltaDecompress(bytes, c.matrix, it.matrix_count),
                       U32DeltaDecompress(bytes, c.docs, it.docs_count),
                       it.columns, it.start, it.end, it.dedup)

\* a reader whose iterators all read through the cursor created last
PullCursorLatest(its, i) == its[Len(its)].it.cursors

\* the cursors iterator i reads through: the ones candidates created for it
PullCursor(its, i) == its[i].it.cursors

\* =================================================================== state
VARIABLES
    phase,            \* where the program is: see the actions
    docs,             \* the add_doc calls so far, in order: [id, content]
    doc_ids,          \* IndexBuilder.doc_ids: the next DocID
    combined,         \* IndexBuilder.combined: trigram -> <<[id, succ], ...>>
    num_docs,         \* IndexBuilder.num_docs
    total_doc_bytes,  \* IndexBuilder.total_doc_bytes
    file,             \* the bytes build wrote to its sink
    index,            \* the opened Index (header and the two tables)
    query,            \* the bytes of the last query
    result,           \* the outcome of the last query, drained
    content,          \* the extractor's input
    extracted,        \* the extractor's result
    cin,              \* a codec's input values
    cbytes,           \* the bytes a compressor wrote
    cout,             \* what a decompressor yielded
    tg,               \* trigrams under conversion
    tgid,             \* their TrigramIDs
    tgback,           \* the result of converting back
    iters,            \* the candidates iterators alive on the opened reader
    map_docs,         \* a DocIDMapper's docs: the DocIDs D of a posting
    map_required,     \* the local indexes its other iterator yields
    map_out,          \* what the mapper yielded
    nself,            \* the section narrow is called on
    nchild,           \* the child section handed to narrow
    nout,             \* what narrow returned
    twin,             \* a second IndexBuilder, given the same documents
    wposting,         \* the docs of one posting handed to build_successors
    wbuf              \* buf_u32 as build_successors filled it

vars == <<phase, docs, doc_ids, combined, num_docs, total_doc_bytes, file, index,
          query, result, content, extracted, cin, cbytes, cout,
          tg, tgid, tgback, iters, map_docs, map_required, map_out,
          nself, nchild, nout, twin, wposting, wbuf>>

builderVars == <<docs, doc_ids, combined, num_docs, total_doc_bytes>>
readerVars == <<file, index, query, result>>
extractVars == <<content, extracted>>
codecVars == <<cin, cbytes, cout>>
convVars == <<tg, tgid, tgback>>
mapVars == <<map_docs, map_required, map_out>>
narrowVars == <<nself, nchild, nout>>
wideVars == <<wposting, wbuf>>
auxVars == <<convVars, iters, mapVars, narrowVars, twin, wideVars>>

NoResult == [status |-> "none", out |-> <<>>]
NoOutput == [ok |-> TRUE, out |-> <<>>]
EmptyCombined == [t \in {} |-> <<>>]
Queries == SeqsUpTo(QueryBytes, MaxQueryLen)

IdleBuilder ==
    /\ docs = <<>> /\ doc_ids = 0 /\ combined = EmptyCombined
    /\ num_docs = 0 /\ total_doc_bytes = 0
IdleReader == file = <<>> /\ index = NoIndex /\ query = <<>> /\ result = NoResult
IdleExtract == content = <<>> /\ extracted = EmptyCombined
IdleCodec == cin = <<>> /\ cbytes = <<>> /\ cout = NoOutput
IdleConv == tg = <<>> /\ tgid = <<>> /\ tgback = <<>>
IdleIter == iters = <<>>
IdleMap == map_docs = <<>> /\ map_required = <<>> /\ map_out = <<>>
NoSection == [offset |-> L(0), len |-> L(0)]
IdleNarrow == nself = NoSection /\ nchild = NoSection /\ nout = NoSection
NewTwin == [doc_ids |-> 0, combined |-> EmptyCombined, num_docs |-> 0,
            ok |-> TRUE, file |-> <<>>]
IdleTwin == twin = NewTwin
NoPosting == [skipped |-> L(0), columns |-> 0, sets |-> <<>>]
IdleWide == wposting = NoPosting /\ wbuf = <<>>
IdleAux == IdleConv /\ IdleIter /\ IdleMap /\ IdleNarrow /\ IdleTwin /\ IdleWide

\* ------------------------------------------------- the index, built and read
\* IndexBuilder::new()
Init ==
    /\ phase = "building"
    /\ IdleBuilder /\ IdleReader /\ IdleExtract /\ IdleCodec /\ IdleAux

\* IndexBuilder::add_doc(content)
AddDoc(c) ==
    /\ phase = "building"
    /\ num_docs < MaxDocs
    /\ total_doc_bytes + Len(c) <= MaxTotalBytes
    /\ LET a == AllocDocID(doc_ids)
       IN /\ doc_ids' = a.next
          /\ combined' = AddDocCombined(combined, a.id, ExtractTrigrams(c))
          /\ docs' = Append(docs, [id |-> a.id, content |-> c])
    /\ total_doc_bytes' = total_doc_bytes + Len(c)
    /\ num_docs' = num_docs + 1
    /\ UNCHANGED <<phase, readerVars, extractVars, codecVars, auxVars>>

\* IndexBuilder::build(w): consumes the builder and writes the file; a
\* sequence that is not sorted fails the compressor's assertion
Build ==
    /\ phase = "building"
    /\ LET b == BuildIndex(combined, num_docs)
       IN IF b.ok
          THEN phase' = "built" /\ file' = b.bytes
          ELSE phase' = "build_panic" /\ file' = <<>>
    /\ UNCHANGED <<builderVars, index, query, result, extractVars, codecVars, auxVars>>

\* Index::new(Mem(file))
Open ==
    /\ phase = "built"
    /\ index' = IndexNew(file)
    /\ phase' = IF index'.status = "ok" THEN "open" ELSE "open_failed"
    /\ UNCHANGED <<builderVars, file, query, result, extractVars, codecVars, auxVars>>

\* index.candidates(q), collected
Query(q) ==
    /\ phase = "open"
    /\ query' = q
    /\ result' = Candidates(index, file, q)
    /\ phase' = "queried"
    /\ UNCHANGED <<builderVars, file, index, extractVars, codecVars, auxVars>>

\* the iterator is dropped; the reader serves the next query
Drop ==
    /\ phase = "queried"
    /\ phase' = "open"
    /\ query' = <<>>
    /\ result' = NoResult
    /\ UNCHANGED <<builderVars, file, index, extractVars, codecVars, auxVars>>

Next ==
    \/ \E c \in SeqsUpTo(DocBytes, MaxTotalBytes) : AddDoc(c)
    \/ Build
    \/ Open
    \/ \E q \in Queries : Query(q)
    \/ Drop

Spec == Init /\ [][Next]_vars

\* ------------------------------------------------------ the extractor alone
Contents == SeqsUpTo(ContentBytes, MaxContentLen)

InitExtract ==
    /\ phase = "extract"
    /\ content \in Contents
    /\ extracted = EmptyCombined
    /\ IdleBuilder /\ IdleReader /\ IdleCodec /\ IdleAux

\* IndexBuilder::extract_trigrams(content)
Extract ==
    /\ phase = "extract"
    /\ extracted' = ExtractTrigrams(content)
    /\ phase' = "extracted"
    /\ UNCHANGED <<content, builderVars, readerVars, codecVars, auxVars>>

NextExtract == Extract

SpecExtract == InitExtract /\ [][NextExtract]_vars

\* --------------------------------------------------------- the codecs alone
\* The inputs: every sequence of at most MaxTailLen edge values, and eight
\* patterns at every length b * BLOCK_LEN + r, b <= MaxBlocks, r in
\* {0, 1, BLOCK_LEN - 1}: around each block boundary.
WMax == <<65535, 65535>>
WTop == <<32768, 0>>
EdgeValues == {WZero, W(1), WTop, WMax}
Kinds == {"zero", "index", "wide", "step", "top", "max", "alt", "desc"}
Lengths == {b * BLOCK_LEN + r : b \in 0..MaxBlocks, r \in {0, 1, BLOCK_LEN - 1}}

PatternValue(kind, i) ==
    CASE kind = "zero" -> WZero
      [] kind = "index" -> W(i)
      [] kind = "wide" -> <<i * 100, i>>
      [] kind = "step" -> <<(i \div BLOCK_LEN) * 20000, i>>
      [] kind = "top" -> WTop
      [] kind = "max" -> WMax
      [] kind = "alt" -> IF i % 2 = 1 THEN WMax ELSE WZero
      [] kind = "desc" -> W(1000 - i)

Pattern(kind, len) == [i \in 1..len |-> PatternValue(kind, i)]

CodecInputs ==
    SeqsUpTo(EdgeValues, MaxTailLen)
    \cup {Pattern(kind, len) : kind \in Kinds, len \in Lengths}

InitCodec ==
    /\ phase = "codec"
    /\ cin \in CodecInputs
    /\ cbytes = <<>>
    /\ cout = NoOutput
    /\ IdleBuilder /\ IdleReader /\ IdleExtract /\ IdleAux

\* U32Compressor(cin).write_to(w)
Compress ==
    /\ phase = "codec"
    /\ cbytes' = U32Compress(cin)
    /\ phase' = "compressed"
    /\ UNCHANGED <<cin, cout, builderVars, readerVars, extractVars, auxVars>>

\* U32Decompressor::new(cbytes, cin.len()).collect()
Decompress ==
    /\ phase = "compressed"
    /\ cout' = U32Decompress(cbytes, 0, Len(cin))
    /\ phase' = "decompressed"
    /\ UNCHANGED <<cin, cbytes, builderVars, readerVars, extractVars, auxVars>>

\* U32DeltaCompressor(cin).write_to(w): the assertion on sortedness, then
\* the bytes
DeltaCompress ==
    /\ phase = "codec"
    /\ IF IsSortedW(cin)
       THEN cbytes' = U32DeltaCompress(cin) /\ phase' = "delta_compressed"
       ELSE cbytes' = <<>> /\ phase' = "compress_panic"
    /\ UNCHANGED <<cin, cout, builderVars, readerVars, extractVars, auxVars>>

\* U32DeltaDecompressor::new(cbytes, cin.len()).collect()
DeltaDecompress ==
    /\ phase = "delta_compressed"
    /\ cout' = U32DeltaDecompress(cbytes, 0, Len(cin))
    /\ phase' = "delta_decompressed"
    /\ UNCHANGED <<cin, cbytes, builderVars, readerVars, extractVars, auxVars>>

\* a stream as a query may find it in a damaged file: its last byte missing,
\* or the num_bits byte of its first block above 32
DamageKinds == {"truncated", "num_bits"}
Damaged(bytes, kind) ==
    IF kind = "truncated" THEN SubSeq(bytes, 1, Len(bytes) - 1)
    ELSE [k \in 1..Len(bytes) |-> IF k = 1 THEN 33 ELSE bytes[k]]

\* the written stream is damaged before it is read
Damage(kind) ==
    /\ phase = "delta_compressed"
    /\ cbytes # <<>>
    /\ kind = "num_bits" => Len(cin) >= BLOCK_LEN
    /\ cbytes' = Damaged(cbytes, kind)
    /\ phase' = "damaged"
    /\ UNCHANGED <<cin, cout, builderVars, readerVars, extractVars, auxVars>>

\* U32DeltaDecompressor::new(cbytes, cin.len()) drained, as docs(), matrix()
\* and successors() of a query drain it: an unwrap or an assertion that
\* fails panics
DecodeDamaged ==
    /\ phase = "damaged"
    /\ cout' = U32DeltaDecompress(cbytes, 0, Len(cin))
    /\ phase' = IF cout'.ok THEN "damaged_decoded" ELSE "decode_panic"
    /\ UNCHANGED <<cin, cbytes, builderVars, readerVars, extractVars, auxVars>>

NextCodec ==
    \/ Compress
    \/ Decompress
    \/ DeltaCompress
    \/ DeltaDecompress
    \/ \E kind \in DamageKinds : Damage(kind)
    \/ DecodeDamaged

SpecCodec == InitCodec /\ [][NextCodec]_vars

\* ------------------------------------------- the trigram conversions alone
\* Trigrams over bytes at the edges of each byte, and ids at the edges of
\* each byte of the 24-bit range.
TrigramBytes == {0, 1, 97, 128, 255}
Trigrams == {<<a, b, c>> : a \in TrigramBytes, b \in TrigramBytes, c \in TrigramBytes}
TrigramIDs ==
    {a * 65536 + b * 256 + c : a \in TrigramBytes, b \in TrigramBytes, c \in TrigramBytes}

InitConv ==
    /\ \/ phase = "trigrams" /\ tg \in Trigrams \X Trigrams /\ tgid = <<>>
       \/ phase = "ids" /\ tg = <<>> /\ tgid \in {<<u>> : u \in TrigramIDs}
    /\ tgback = <<>>
    /\ IdleBuilder /\ IdleReader /\ IdleExtract /\ IdleCodec /\ IdleIter /\ IdleMap
    /\ IdleNarrow /\ IdleTwin /\ IdleWide

\* TrigramID::from(t) for each trigram of tg
IntoID ==
    /\ phase = "trigrams"
    /\ tgid' = [k \in 1..Len(tg) |-> TrigramID(tg[k])]
    /\ phase' = "trigrams_as_ids"
    /\ UNCHANGED <<tg, tgback, builderVars, readerVars, extractVars, codecVars, iters, mapVars,
                   narrowVars, twin,
                   wideVars>>

\* Trigram::from(id) for each id just obtained
BackIntoTrigram ==
    /\ phase = "trigrams_as_ids"
    /\ tgback' = [k \in 1..Len(tgid) |-> TrigramFromID(tgid[k])]
    /\ phase' = "trigrams_back"
    /\ UNCHANGED <<tg, tgid, builderVars, readerVars, extractVars, codecVars, iters, mapVars,
                   narrowVars, twin,
                   wideVars>>

\* Trigram::from(id) for each id of tgid
IntoTrigram ==
    /\ phase = "ids"
    /\ tg' = [k \in 1..Len(tgid) |-> TrigramFromID(tgid[k])]
    /\ phase' = "ids_as_trigrams"
    /\ UNCHANGED <<tgid, tgback, builderVars, readerVars, extractVars, codecVars, iters, mapVars,
                   narrowVars, twin,
                   wideVars>>

\* TrigramID::from(t) for each trigram just obtained
BackIntoID ==
    /\ phase = "ids_as_trigrams"
    /\ tgback' = [k \in 1..Len(tg) |-> TrigramID(tg[k])]
    /\ phase' = "ids_back"
    /\ UNCHANGED <<tg, tgid, builderVars, readerVars, extractVars, codecVars, iters, mapVars,
                   narrowVars, twin,
                   wideVars>>

NextConv ==
    \/ IntoID
    \/ BackIntoTrigram
    \/ IntoTrigram
    \/ BackIntoID

SpecConv == InitConv /\ [][NextConv]_vars

\* ------------------------------------------------- open on foreign sources
\* Sources that build did not write: some shorter than the footer, the others
\* a body of zero bytes followed by a footer whose directory and ends table
\* start at 0 and have the recorded lengths below.
ShortSourceLens == {0, 1, INDEX_HEADER_SIZE - 1}
SourceBodyLens == {0, 8, 24}
DirectoryLens == {0, 1, 2, 3, 4, 6}
EndsLens == {0, 2, 4, 5, 8, 12, 16}
Zeros(n) == [k \in 1..n |-> 0]

FooterOf(ulen, elen) ==
    IndexHeaderBytes([num_docs |-> 0,
                      trigram_postings |-> Section(0, 0),
                      unique_trigrams |-> Section(0, ulen),
                      trigram_posting_ends |-> Section(ulen, elen)])

Sources ==
    {Zeros(n) : n \in ShortSourceLens}
    \cup {Zeros(n) \o FooterOf(ulen, elen) :
             n \in SourceBodyLens, ulen \in DirectoryLens, elen \in EndsLens}

InitSource ==
    /\ phase = "source"
    /\ file \in Sources
    /\ index = NoIndex /\ query = <<>> /\ result = NoResult
    /\ IdleBuilder /\ IdleExtract /\ IdleCodec /\ IdleAux

\* Index::new(Mem(file)) on such a source
OpenSource ==
    /\ phase = "source"
    /\ index' = IndexNew(file)
    /\ phase' = "source_opened"
    /\ UNCHANGED <<builderVars, file, query, result, extractVars, codecVars, auxVars>>

NextSource == OpenSource

SpecSource == InitSource /\ [][NextSource]_vars

\* ------------------------------------------- iterators on one opened reader
\* The reader is opened on the index of one of a few small lists of documents;
\* candidates is called up to MaxIters times and the iterators are pulled
\* one item at a time in any order.
IterContents == {<<97, 97, 97>>, <<97, 97, 98>>, <<97, 97, 97, 98>>}
IterCorpora == SeqsUpTo(IterContents, 2)
IterQueries == {<<>>, <<97, 97, 97>>, <<97, 97, 98>>, <<97, 97, 97, 98>>}

RECURSIVE AddedDocs(_, _)
\* the builder after add_doc on the first k contents
AddedDocs(contents, k) ==
    IF k = 0 THEN [docs |-> <<>>, doc_ids |-> 0, combined |-> EmptyCombined, bytes |-> 0]
    ELSE LET b == AddedDocs(contents, k - 1)
             a == AllocDocID(b.doc_ids)
         IN [docs |-> Append(b.docs, [id |-> a.id, content |-> contents[k]]),
             doc_ids |-> a.next,
             combined |-> AddDocCombined(b.combined, a.id, ExtractTrigrams(contents[k])),
             bytes |-> b.bytes + Len(contents[k])]

InitIter ==
    /\ phase = "open"
    /\ \E contents \in IterCorpora :
          LET b == AddedDocs(contents, Len(contents))
          IN /\ docs = b.docs /\ doc_ids = b.doc_ids /\ combined = b.combined
             /\ num_docs = Len(contents) /\ total_doc_bytes = b.bytes
             /\ file = BuildIndex(b.combined, Len(contents)).bytes
    /\ index = IndexNew(file)
    /\ query = <<>> /\ result = NoResult
    /\ IdleExtract /\ IdleCodec /\ IdleConv /\ IdleMap /\ IdleNarrow /\ IdleTwin /\ IdleWide
    /\ iters = <<>>

\* let it = index.candidates(q): the iterator is created, nothing is pulled
NewIter(q) ==
    /\ phase = "open"
    /\ Len(iters) < MaxIters
    /\ LET it == NewCandidates(index, file, q)
       IN IF it.status = "panic"
          THEN phase' = "iter_panic" /\ iters' = iters
          ELSE /\ phase' = phase
               /\ iters' = Append(iters, [query |-> q, it |-> it, pulled |-> FALSE,
                                          buf |-> <<>>, out |-> <<>>, done |-> FALSE])
    /\ UNCHANGED <<builderVars, readerVars, extractVars, codecVars, convVars, mapVars,
                   narrowVars, twin,
                   wideVars>>

\* the items iterator e has left, its first pull reading through cursors c
Remaining(e, c) == IF e.pulled THEN Yield(e.buf) ELSE FirstPull(file, e.it, c)

\* iterator i after a pull that found the items r left: the first of them is
\* yielded, or the iterator is done
Pulled(e, r) ==
    IF r.out = <<>> THEN [e EXCEPT !.pulled = TRUE, !.buf = <<>>, !.done = TRUE]
    ELSE [e EXCEPT !.pulled = TRUE, !.buf = Tail(r.out), !.out = Append(e.out, Head(r.out))]

\* iters[i].next()
Pull(i) ==
    /\ phase = "open"
    /\ i \in 1..Len(iters)
    /\ ~iters[i].done
    /\ IF Remaining(iters[i], PullCursor(iters, i)).status = "panic"
       THEN phase' = "iter_panic" /\ iters' = iters
       ELSE /\ phase' = phase
            /\ iters' = [iters EXCEPT
                             ![i] = Pulled(iters[i],
                                           Remaining(iters[i], PullCursor(iters, i)))]
    /\ UNCHANGED <<builderVars, readerVars, extractVars, codecVars, convVars, mapVars,
                   narrowVars, twin,
                   wideVars>>

NextIter ==
    \/ \E q \in IterQueries : NewIter(q)
    \/ \E i \in 1..MaxIters : Pull(i)

SpecIter == InitIter /\ [][NextIter]_vars

\* ------------------------------------------------- the DocID mapper alone
\* D is a strictly increasing list of DocIDs, as build_unique_docs writes it;
\* the required local indexes are any non-decreasing stream of positions of D.
MapDocIDs == {2, 5, 7, 9}
RECURSIVE IsIncreasing(_, _)
\* xs[k] < xs[k + 1] throughout (strict), or xs[k] <= xs[k + 1]
IsIncreasing(xs, strict) ==
    \/ Len(xs) <= 1
    \/ /\ IF strict THEN xs[1] < xs[2] ELSE xs[1] <= xs[2]
       /\ IsIncreasing(Tail(xs), strict)
MapDocLists == {ds \in SeqsUpTo(MapDocIDs, MaxMapDocs) : IsIncreasing(ds, TRUE)}
RequiredStreams(ds) ==
    {r \in SeqsUpTo(0..(Len(ds) - 1), MaxRequired) : IsIncreasing(r, FALSE)}

InitMap ==
    /\ phase = "mapper"
    /\ map_docs \in MapDocLists
    /\ map_required \in RequiredStreams(map_docs)
    /\ map_out = <<>>
    /\ IdleBuilder /\ IdleReader /\ IdleExtract /\ IdleCodec /\ IdleConv /\ IdleIter
    /\ IdleNarrow /\ IdleTwin /\ IdleWide

\* DocIDMapper::new(docs.enumerate(), required).collect()
MapAll ==
    /\ phase = "mapper"
    /\ map_out' = DocIDMapper(Enumerate(Ws(map_docs)), 0, map_required, 1)
    /\ phase' = "mapped"
    /\ UNCHANGED <<map_docs, map_required, builderVars, readerVars, extractVars,
                   codecVars, convVars, iters, narrowVars, twin,
                   wideVars>>

NextMap == MapAll

SpecMap == InitMap /\ [][NextMap]_vars

\* ------------------------------------------------- Section::narrow alone
\* offsets and lengths at the two ends of u64
EdgeU64 == {L(0), L(1), L(2), L(5), <<<<0, 1>>, WZero>>, <<<<32768, 0>>, WZero>>,
            <<<<65535, 65535>>, <<65535, 65534>>>>, LMax}
EdgeSections == {Section(o, l) : o \in EdgeU64, l \in EdgeU64}

InitNarrow ==
    /\ phase = "sections"
    /\ nself \in EdgeSections
    /\ nchild \in EdgeSections
    /\ nout = NoSection
    /\ IdleBuilder /\ IdleReader /\ IdleExtract /\ IdleCodec
    /\ IdleConv /\ IdleIter /\ IdleMap /\ IdleTwin /\ IdleWide

\* nself.narrow(nchild), in a build with or without overflow checks
NarrowSection(overflow_checks) ==
    /\ phase = "sections"
    /\ LET r == NarrowU64(nself, nchild, overflow_checks)
       IN IF r.status = "ok"
          THEN phase' = "narrowed" /\ nout' = r.section
          ELSE phase' = "narrow_panic" /\ nout' = nout
    /\ UNCHANGED <<nself, nchild, builderVars, readerVars, extractVars, codecVars,
                   convVars, iters, mapVars, twin, wideVars>>

NextNarrow == \E overflow_checks \in BOOLEAN : NarrowSection(overflow_checks)

SpecNarrow == InitNarrow /\ [][NextNarrow]_vars

\* ------------------------------------------------------ two builders
\* Two IndexBuilders are given the same documents in the same order; every
\* call of either iterates its hash containers in an order of its own.
InitTwin ==
    /\ phase = "twin_building"
    /\ IdleBuilder /\ IdleReader /\ IdleExtract /\ IdleCodec
    /\ IdleConv /\ IdleIter /\ IdleMap /\ IdleNarrow /\ IdleTwin /\ IdleWide

\* add_doc(c) on both builders
AddDocTwin(c, order, twin_order) ==
    /\ phase = "twin_building"
    /\ num_docs < MaxDocs
    /\ total_doc_bytes + Len(c) <= MaxTotalBytes
    /\ doc_ids' = AllocDocID(doc_ids).next
    /\ combined' = AddDocCombinedIn(combined, AllocDocID(doc_ids).id, ExtractTrigrams(c),
                                    IterationOrder(DOMAIN ExtractTrigrams(c), order), 1)
    /\ docs' = Append(docs, [id |-> AllocDocID(doc_ids).id, content |-> c])
    /\ total_doc_bytes' = total_doc_bytes + Len(c)
    /\ num_docs' = num_docs + 1
    /\ twin' = [twin EXCEPT
                  !.doc_ids = AllocDocID(twin.doc_ids).next,
                  !.combined =
                      AddDocCombinedIn(twin.combined, AllocDocID(twin.doc_ids).id,
                          ExtractTrigrams(c),
                          IterationOrder(DOMAIN ExtractTrigrams(c), twin_order), 1),
                  !.num_docs = twin.num_docs + 1]
    /\ UNCHANGED <<phase, readerVars, extractVars, codecVars, convVars, iters,
                   mapVars, narrowVars, wideVars>>

\* the two sinks after the builds b and tb
BuildTwinInto(b, tb) ==
    /\ phase' = IF b.ok THEN "twin_built" ELSE "twin_build_panic"
    /\ file' = IF b.ok THEN b.bytes ELSE <<>>
    /\ twin' = [twin EXCEPT !.ok = tb.ok,
                            !.file = IF tb.ok THEN tb.bytes ELSE <<>>]
    /\ UNCHANGED <<builderVars, index, query, result, extractVars, codecVars,
                   convVars, iters, mapVars, narrowVars, wideVars>>

\* the second build(w), after the first wrote b
BuildTwinAfter(b) ==
    \E twin_order \in HashOrders :
        BuildTwinInto(b, BuildIndexIn(twin.combined, twin.num_docs, twin_order))

\* build(w) on both builders, each into a sink of its own
BuildTwin(order) ==
    /\ phase = "twin_building"
    /\ BuildTwinAfter(BuildIndexIn(combined, num_docs, order))

NextTwin ==
    \/ \E c \in SeqsUpTo(DocBytes, MaxTotalBytes), order \in HashOrders,
          twin_order \in HashOrders : AddDocTwin(c, order, twin_order)
    \/ \E order \in HashOrders : BuildTwin(order)

SpecTwin == InitTwin /\ [][NextTwin]_vars

\* -------------------------------------------- build_successors alone
\* numbers of leading documents around 2^31 and 2^32
EdgeDocCounts == {L(0), L(1), <<WZero, <<32767, 65535>>>>, <<WZero, <<32768, 0>>>>,
                  <<WZero, <<65535, 65534>>>>}
MaxColumns == 3
WidePostings ==
    {[skipped |-> k, columns |-> n, sets |-> ss] :
        k \in EdgeDocCounts, n \in 1..MaxColumns,
        ss \in {x \in SeqsUpTo(SUBSET (0..(MaxColumns - 1)) \ {{}}, 2) : x # <<>>}}

InitWide ==
    /\ phase = "posting"
    /\ wposting \in {p \in WidePostings :
                        UNION {p.sets[d] : d \in 1..Len(p.sets)} = 0..(p.columns - 1)}
    /\ wbuf = <<>>
    /\ IdleBuilder /\ IdleReader /\ IdleExtract /\ IdleCodec
    /\ IdleConv /\ IdleIter /\ IdleMap /\ IdleNarrow /\ IdleTwin

\* build_successors(w, unique_successors, docs), in a build with or without
\* overflow checks
BuildSuccessors(overflow_checks) ==
    /\ phase = "posting"
    /\ LET b == BuildSuccessorsU32(wposting.skipped, wposting.columns, wposting.sets,
                                   overflow_checks)
       IN IF b.ok
          THEN phase' = "matrix_written" /\ wbuf' = b.buf
          ELSE phase' = "matrix_panic" /\ wbuf' = <<>>
    /\ UNCHANGED <<wposting, builderVars, readerVars, extractVars, codecVars,
                   convVars, iters, mapVars, narrowVars, twin>>

NextWide == \E overflow_checks \in BOOLEAN : BuildSuccessors(overflow_checks)

SpecWide == InitWide /\ [][NextWide]_vars

\* ================================================================== claims
\* q occurs in d as a contiguous run of bytes
IsSubstring(q, d) ==
    \E i \in 0..(Len(d) - Len(q)) : SubSeq(d, i + 1, i + Len(q)) = q

NoRepeat(xs) == \A i, j \in 1..Len(xs) : i # j => xs[i] # xs[j]

Opened == phase \in {"open", "queried"}

\* C1: after add_doc/build/open, for every document d added and every
\* contiguous substring q of d with 3 <= |q| <= 6, candidates(q) yields the
\* DocID of d (no false negatives).
NoFalseNegatives ==
    (phase = "queried" /\ Len(query) >= 3 /\ Len(query) <= 6)
    => \A k \in 1..Len(docs) :
           IsSubstring(query, docs[k].content) => docs[k].id \in Range(result.out)

\* C2: the sequence candidates(q) yields holds no DocID more than once,
\* whatever the index built and whatever the query and its plan.
NoDuplicateDocIDs == phase = "queried" => NoRepeat(result.out)

\* a query of three bytes or more that yielded two DocIDs or more
TwoCandidates ==
    phase = "queried" /\ Len(query) >= 3 /\ result.status = "ok" /\ Len(result.out) >= 2

\* C3: a query of length 0, 1 or 2 yields every DocID 0, 1, ..., num_docs - 1
\* exactly once, num_docs being the number of add_doc calls before build;
\* it is no error and does not depend on the query's bytes.
ShortQueryAllDocs ==
    (phase = "queried" /\ Len(query) < 3)
    => /\ result.status = "ok"
       /\ Len(result.out) = Len(docs)
       /\ \A k \in 1..Len(docs) : result.out[k] = k - 1

\* a two-byte query on an index of two documents, answered
ShortQueryAnswered ==
    /\ phase = "queried" /\ Len(query) = 2 /\ Len(docs) = 2
    /\ result = Yield(<<0, 1>>)

\* C4: a query of three bytes or more whose leading trigram is not in the
\* trigram directory yields nothing, without an error or a panic.
MissingTrigramEmpty ==
    (/\ phase = "queried" /\ Len(query) >= 3
     /\ SubSeq(query, 1, 3) \notin Range(index.unique_trigrams))
    => result = Yield(<<>>)

\* a query whose leading trigram is missing from a directory that is not
\* empty, answered
MissingTrigramAnswered ==
    /\ phase = "queried" /\ Len(query) >= 3
    /\ index.unique_trigrams # <<>>
    /\ SubSeq(query, 1, 3) \notin Range(index.unique_trigrams)
    /\ result = Yield(<<>>)

\* C5: for any list of documents, build and then open succeed, and the
\* reader's num_docs is the number of documents added, its directory is
\* strictly sorted by trigram and has one entry per posting.
BuildThenOpen ==
    /\ phase \notin {"build_panic", "open_failed"}
    /\ phase = "open" =>
        /\ index.status = "ok"
        /\ index.header.num_docs = Len(docs)
        /\ \A i, j \in 1..Len(index.unique_trigrams) :
               i < j => TrigramLess(index.unique_trigrams[i], index.unique_trigrams[j])
        /\ Range(index.unique_trigrams) = DOMAIN combined
        /\ Len(index.unique_trigrams) = Cardinality(DOMAIN combined)
        /\ Len(index.trigram_posting_ends) = Len(index.unique_trigrams)

\* an index of two documents and four postings or more, opened
TwoDocsOpened ==
    phase = "open" /\ Len(docs) = 2 /\ Len(index.unique_trigrams) >= 4

\* C6: for every sequence X of u32 values, of any length (0, 127, 128, 129,
\* 256 and 257 among them), U32Decompressor reading what U32Compressor wrote
\* with count |X| yields exactly X.
CompressRoundTrip == phase = "decompressed" => (cout.ok /\ cout.out = cin)

\* a round trip of two blocks and a tail, with values of every width
CrossBlockRoundTrip ==
    /\ phase = "decompressed" /\ Len(cin) = 2 * BLOCK_LEN + 1
    /\ WMax \in Range(cin) /\ WZero \in Range(cin)
    /\ cout.out = cin

\* C7: for every non-decreasing sequence X of u32 values over the full range,
\* of any length, U32DeltaDecompressor reading what U32DeltaCompressor wrote
\* with count |X| yields exactly X.
DeltaRoundTrip == phase = "delta_decompressed" => (cout.ok /\ cout.out = cin)

\* the trigrams a call's document contributes, and the DocIDs a trigram's
\* list carries
CallTrigrams(k) == DOMAIN ExtractTrigrams(docs[k].content)
ListIDs(t) == [e \in 1..Len(combined[t]) |-> combined[t][e].id]
RECURSIVE CallsWith(_, _)
CallsWith(t, k) ==
    IF k > Len(docs) THEN <<>>
    ELSE (IF t \in CallTrigrams(k) THEN <<k - 1>> ELSE <<>>) \o CallsWith(t, k + 1)

\* C8: the k-th add_doc call (from 0) gets DocID k whatever its content, and
\* every entry the call appends carries that one DocID: a trigram's list
\* holds, in order, exactly the numbers of the calls whose document has it.
OneDocIDPerCall ==
    phase = "building" =>
    /\ doc_ids = Len(docs)
    /\ \A k \in 1..Len(docs) : docs[k].id = k - 1
    /\ DOMAIN combined = UNION {CallTrigrams(k) : k \in 1..Len(docs)}
    /\ \A t \in DOMAIN combined : ListIDs(t) = CallsWith(t, 1)

\* an empty document, then one of three bytes or more with several trigrams
EmptyThenLongDoc ==
    /\ Len(docs) = 2 /\ docs[1].content = <<>> /\ Len(docs[2].content) >= 3
    /\ docs[2].id = 1
    /\ Cardinality(DOMAIN combined) >= 3

\* the three bytes of c from offset p (0-based), padded with the sentinel
PaddedAt(c, p) == [k \in 1..3 |-> IF p + k <= Len(c) THEN c[p + k] ELSE SENTINEL]
Occurrences(c, t) == {i \in 0..(Len(c) - 3) : PaddedAt(c, i) = t}

\* C9: for a document C of length n >= 3 and every position i in [0, n-3],
\* C[i..i+3] is a key of the extractor's result, and the key's value is
\* exactly the set of successors C[i+3..i+6], padded with 0xFF at the end of
\* the document, over the positions where the key occurs.
ExtractorSuccessors ==
    (phase = "extracted" /\ Len(content) >= 3)
    => \A i \in 0..(Len(content) - 3) :
           /\ PaddedAt(content, i) \in DOMAIN extracted
           /\ extracted[PaddedAt(content, i)] =
                  {PaddedAt(content, j + 3) : j \in Occurrences(content, PaddedAt(content, i))}

\* C10: for n >= 2 the result has the keys (C[n-2], C[n-1], FF) and
\* (C[n-1], FF, FF), for n >= 1 the key (FF, FF, FF); a sentinel key that is
\* no real trigram of C maps to the empty set; for n = 1 or 2 the
\* sentinel-padded trigrams are the only keys.
SentinelKeys ==
    phase = "extracted"
    => LET n == Len(content)
           tails == {PaddedAt(content, p) : p \in Max(n - 2, 0)..n}
       IN /\ n >= 2 => {PaddedAt(content, n - 2), PaddedAt(content, n - 1)}
                           \subseteq DOMAIN extracted
          /\ n >= 1 => <<SENTINEL, SENTINEL, SENTINEL>> \in DOMAIN extracted
          /\ \A t \in tails \cap DOMAIN extracted :
                 Occurrences(content, t) = {} => extracted[t] = {}
          /\ n \in {1, 2} => DOMAIN extracted \subseteq tails

\* the posting of trigram t as build computes it from the builder's list:
\* unique successors U, matrix values S and DocIDs D
PostingU(t) == UniqueSuccessors(combined[t])
PostingS(t) == Matrix(PostingU(t), combined[t])
PostingD(t) == UniqueDocs(combined[t])

\* the 0-based positions in U of the successors that pass `Want`, given as
\* the set of their TrigramIDs
PositionsIn(U, ids) == {s \in 0..(Len(U) - 1) : U[s + 1] \in ids}

\* the local document indexes d for which the matrix holds a pair (d, s) with
\* s among `cols`
LocalDocsWith(U, S, D, cols) ==
    {d \in 0..(Len(D) - 1) : \E s \in cols : MatrixValue(d, Len(U), s) \in Range(S)}

RECURSIVE DocIDsAt(_, _, _)
\* the DocIDs D[d] of the local indexes d in `keep`, in the order of D
DocIDsAt(D, keep, d) ==
    IF d >= Len(D) THEN <<>>
    ELSE (IF d \in keep THEN <<D[d + 1]>> ELSE <<>>) \o DocIDsAt(D, keep, d + 1)

\* what the posting of t answers for the successor columns `cols`
PostingAnswer(t, cols) ==
    DocIDsAt(PostingD(t), LocalDocsWith(PostingU(t), PostingS(t), PostingD(t), cols), 0)

\* C11: a query Q of six bytes or more whose leading trigram has a posting
\* yields exactly the DocIDs D[d] of the local indexes d for which the matrix
\* holds (d, target), target being the position of Q[3..6] in the posting's
\* unique successors, and nothing when Q[3..6] is not among them; the bytes
\* from Q[6] on have no effect.
ExactSuccessorCandidates ==
    (phase = "queried" /\ Len(query) >= 6 /\ SubSeq(query, 1, 3) \in DOMAIN combined)
    => LET t == SubSeq(query, 1, 3)
           cols == PositionsIn(PostingU(t), {TrigramID(SubSeq(query, 4, 6))})
       IN /\ result = Yield(PostingAnswer(t, cols))
          /\ result = Candidates(index, file, SubSeq(query, 1, 6))

\* C12: Trigram -> b0 * 2^16 + b1 * 2^8 + b2 is an order-preserving
\* bijection onto [0, 2^24): a trigram converted to its integer and back is
\* the same trigram, every integer of the range is the integer of the
\* trigram it converts to, and two trigrams compare as their integers do.
TrigramIDOrderIso ==
    /\ phase \in {"trigrams_as_ids", "trigrams_back"} =>
        /\ \A k \in 1..2 : tgid[k] >= 0 /\ tgid[k] < 16777216
        /\ TrigramLess(tg[1], tg[2]) <=> tgid[1] < tgid[2]
        /\ tg[1] = tg[2] <=> tgid[1] = tgid[2]
    /\ phase = "trigrams_back" => tgback = tg
    /\ phase = "ids_back" => tgback = tgid

\* two trigrams that differ in the first byte only, 0x01 against 0xFF in the
\* other two, converted and converted back
HighByteDecides ==
    /\ phase = "trigrams_back"
    /\ tg = <<<<0, 255, 255>>, <<1, 0, 0>>>>
    /\ tgid[1] < tgid[2]
    /\ tgback = tg

\* C13: in every file build writes with N postings the footer records
\* unique_trigrams.len = 3 * N and trigram_posting_ends.len = 8 * N, the
\* three regions are contiguous in the order postings, directory, ends
\* table, and the footer is the last 52 bytes of the file.
FooterLayout ==
    phase = "built"
    => LET h == ReadIndexHeader(file)
           N == Cardinality(DOMAIN combined)
       IN /\ Len(file) >= INDEX_HEADER_SIZE
          /\ h.unique_trigrams.len = 3 * N
          /\ h.trigram_posting_ends.len = 8 * N
          /\ h.trigram_posting_ends.len \div 8 = h.unique_trigrams.len \div 3
          /\ h.trigram_postings.offset = 0
          /\ h.unique_trigrams.offset = h.trigram_postings.len
          /\ h.trigram_posting_ends.offset
                 = h.unique_trigrams.offset + h.unique_trigrams.len
          /\ h.trigram_posting_ends.offset + h.trigram_posting_ends.len
                 = Len(file) - INDEX_HEADER_SIZE

\* the footer of the source breaks a size invariant of the file format
FooterViolation(h) ==
    \/ h.unique_trigrams.len % 3 # 0
    \/ h.trigram_posting_ends.len % 8 # 0
    \/ h.unique_trigrams.len \div 3 # h.trigram_posting_ends.len \div 8

\* C14: opening a source shorter than the 52-byte footer, or one whose
\* footer breaks a size invariant (directory length no multiple of 3, ends
\* table length no multiple of 8, or the two entry counts differing),
\* returns an error value: no panic, no usable reader.
OpenRejectsBadFooter ==
    (/\ phase = "source_opened"
     /\ \/ Len(file) < INDEX_HEADER_SIZE
        \/ FooterViolation(ReadIndexHeader(file)))
    => index.status = "error"

\* C15: a decoder that meets an unexpected end of stream or a block header
\* with num_bits > 32 ends in an error outcome for the consumer: the process
\* does not panic, and the consumer is not handed a shortened result as if
\* it were complete.
DecoderErrorsSurface ==
    /\ phase # "decode_panic"
    /\ phase = "damaged_decoded" => Len(cout.out) = Len(cin)

IsPrefix(xs, ys) == Len(xs) <= Len(ys) /\ SubSeq(ys, 1, Len(xs)) = xs

\* C16: candidates iterators of one opened reader, pulled in any
\* interleaving, each yield exactly the sequence they would yield if pulled
\* alone, and no pull changes the reader's header, directory or ends table.
IteratorsIndependent ==
    iters # <<>>
    => /\ index = IndexNew(file)
       /\ \A i \in 1..Len(iters) :
              LET alone == Candidates(index, file, iters[i].query)
              IN alone.status = "ok"
                 => /\ IsPrefix(iters[i].out, alone.out)
                    /\ iters[i].done => iters[i].out = alone.out

\* two iterators over different postings, each pulled once and neither at
\* its end
BothMidway ==
    /\ Len(iters) = 2
    /\ iters[1].it.kind = "docs" /\ iters[2].it.kind = "docs"
    /\ iters[1].it.cursors # iters[2].it.cursors
    /\ \A i \in 1..2 : Len(iters[i].out) = 1 /\ iters[i].buf # <<>>

\* the successors of U, as TrigramIDs, whose first bytes are `prefix`
WithPrefix(U, prefix) ==
    {U[k] : k \in {j \in 1..Len(U) :
                     SubSeq(TrigramFromID(U[j]), 1, Len(prefix)) = prefix}}

\* C17: a query Q of four or five bytes whose leading trigram has a posting
\* yields exactly the DocIDs D[d] of the local indexes d for which the matrix
\* holds some pair (d, s) with Q[3..] a prefix of the successor U[s], each
\* once, and nothing when no successor of U has that prefix.
PrefixCandidates ==
    (/\ phase = "queried" /\ Len(query) \in {4, 5}
     /\ SubSeq(query, 1, 3) \in DOMAIN combined)
    => LET t == SubSeq(query, 1, 3)
           cols == PositionsIn(PostingU(t),
                               WithPrefix(PostingU(t), SubSeq(query, 4, Len(query))))
       IN result = Yield(PostingAnswer(t, cols))

\* the DocIDs at the required positions of D, one per required index
DocIDsRequired == [k \in 1..Len(map_required) |-> map_docs[map_required[k] + 1]]

\* C18 as stated: for any non-decreasing stream of required local indexes
\* that are positions of D, the mapper emits for each of them, in order, the
\* DocID at that position: as many outputs as required indexes.
MapperNonDecreasing == phase = "mapped" => map_out = DocIDsRequired

\* C18, amended: for any strictly increasing stream of required local
\* indexes that are positions of D, the mapper emits for each of them, in
\* order, the DocID at that position: as many outputs as required indexes.
MapperStrictlyIncreasing ==
    (phase = "mapped" /\ IsIncreasing(map_required, TRUE))
    => map_out = DocIDsRequired

\* the first and the third of three documents required: one is skipped
MapperSkipsOne ==
    /\ phase = "mapped"
    /\ Len(map_docs) = 3 /\ map_required = <<0, 2>>
    /\ map_out = <<map_docs[1], map_docs[3]>>

\* the postings as build writes them, in directory order
WrittenPostings == BuildPostings(combined, SortTrigrams(DOMAIN combined), 1, <<>>)

\* the content of the document with DocID id
ContentOf(id) == docs[CHOOSE k \in 1..Len(docs) : docs[k].id = id].content

\* trigram u follows trigram t in document c: t occurs at some position i
\* and u is the successor at i + 3, padded with the sentinel
Follows(c, t, u) == \E i \in Occurrences(c, t) : PaddedAt(c, i + 3) = u

\* C19: in every posting build writes, the matrix holds d * |U| + s iff in
\* the document at position d of the posting's docs the successor at
\* position s of U follows the indexed trigram at least once; every matrix
\* value v has v div |U| < |D| and v mod |U| < |U|; and the reader's
\* decoding of v, by the successor count of the posting's header, recovers
\* (d, s).
MatrixMeansFollows ==
    phase = "built"
    => \A n \in 1..Len(WrittenPostings) :
           LET p == WrittenPostings[n]
               columns == p.header.successors_count
           IN /\ \A d \in 0..(Len(p.D) - 1), s \in 0..(Len(p.U) - 1) :
                     MatrixValue(d, Len(p.U), s) \in Range(p.S)
                     <=> Follows(ContentOf(p.D[d + 1]), p.trigram, TrigramFromID(p.U[s + 1]))
              /\ \A k \in 1..Len(p.S) :
                     /\ p.S[k] \div Len(p.U) < Len(p.D)
                     /\ p.S[k] % Len(p.U) < Len(p.U)
                     /\ columns > 0
                     /\ p.S[k] \div columns = p.S[k] \div Len(p.U)
                     /\ p.S[k] % columns = p.S[k] % Len(p.U)

\* the matrix of posting p holds a pair of the document at local index d
HasPair(p, d) == \E k \in 1..Len(p.S) : p.S[k] \div Len(p.U) = d

\* C20 as stated: in every posting build writes, for every document listed
\* in the posting's docs the matrix holds at least one pair whose local
\* document index is that document's position.
EveryDocHasPair ==
    phase = "built"
    => \A n \in 1..Len(WrittenPostings) :
           \A d \in 0..(Len(WrittenPostings[n].D) - 1) : HasPair(WrittenPostings[n], d)

\* C20, amended: in every posting build writes, the matrix holds at least
\* one pair for every listed document in which the indexed trigram occurs as
\* three bytes of the content; a document listed only because the trigram is
\* one of its sentinel-padded tail trigrams has no pair.
RealDocsHavePairs(ps) ==
    \A n \in 1..Len(ps) :
        \A d \in 0..(Len(ps[n].D) - 1) :
            HasPair(ps[n], d)
            <=> Occurrences(ContentOf(ps[n].D[d + 1]), ps[n].trigram) # {}

EveryRealDocHasPair == phase = "built" => RealDocsHavePairs(WrittenPostings)

\* a posting of two documents that both have pairs, next to a posting of a
\* tail trigram without any
PairsAndTailPosting ==
    /\ phase = "built"
    /\ \E n \in 1..Len(WrittenPostings) :
          /\ Len(WrittenPostings[n].D) = 2
          /\ HasPair(WrittenPostings[n], 0) /\ HasPair(WrittenPostings[n], 1)
    /\ \E n \in 1..Len(WrittenPostings) :
          WrittenPostings[n].D # <<>> /\ WrittenPostings[n].S = <<>>

\* C21: build never fails the sorted-delta encoder's sortedness assertion,
\* and in every posting it writes the sequences unique_successors, matrix and
\* unique_docs are each strictly increasing.
SequencesIncreasing(ps) ==
    \A n \in 1..Len(ps) :
        /\ IsIncreasing(ps[n].U, TRUE)
        /\ IsIncreasing(ps[n].S, TRUE)
        /\ IsIncreasing(ps[n].D, TRUE)
        /\ ps[n].sorted

WrittenEnds == PostingEnds(WrittenPostings, Len(WrittenPostings))
WrittenStart(n) == IF n = 1 THEN 0 ELSE WrittenEnds[n - 1]

\* the stream of `count` values at `pos` of the file decodes into xs
DecodesInto(pos, count, xs) ==
    LET r == U32DeltaDecompress(file, pos, count)
    IN r.ok /\ r.out = Ws(xs)

\* C22: for every posting build writes, the header's three counts are the
\* lengths of U, S and D, its three _bytes fields are the encoded lengths of
\* the three sub-streams that follow the header in that order, and decoding
\* with those counts at those offsets recovers U, S and D.
HeaderDescribesPosting ==
    phase = "built"
    => \A n \in 1..Len(WrittenPostings) :
           LET p == WrittenPostings[n]
               h == ReadPostingHeader(file, WrittenStart(n))
               at == WrittenStart(n) + POSTING_HEADER_SIZE
           IN /\ h.successors_count = Len(p.U)
              /\ h.matrix_count = Len(p.S)
              /\ h.docs_count = Len(p.D)
              /\ h.successors_bytes = Len(U32DeltaCompress(Ws(p.U)))
              /\ h.matrix_bytes = Len(U32DeltaCompress(Ws(p.S)))
              /\ h.docs_bytes = Len(U32DeltaCompress(Ws(p.D)))
              /\ DecodesInto(at, h.successors_count, p.U)
              /\ DecodesInto(at + h.successors_bytes, h.matrix_count, p.S)
              /\ DecodesInto(at + h.successors_bytes + h.matrix_bytes, h.docs_count, p.D)

\* the bytes of the postings 1..k as build wrote them, header and sub-streams
BytesThrough(ps, k) == Len(Concat([i \in 1..k |-> ps[i].bytes]))

\* the posting-ends table and the directory of the opened file against the
\* postings ps
EndsFollow(ps) ==
    /\ Len(index.trigram_posting_ends) = Len(ps)
    /\ IsIncreasing(index.trigram_posting_ends, TRUE)
    /\ index.header.trigram_postings.len = BytesThrough(ps, Len(ps))
    /\ \A k \in 1..Len(ps) :
           LET t == index.unique_trigrams[k]
               ts == TrigramSection(index, t)
           IN /\ index.trigram_posting_ends[k] = BytesThrough(ps, k)
              /\ ts.found
              /\ ts.section = Section(BytesThrough(ps, k - 1),
                                      BytesThrough(ps, k) - BytesThrough(ps, k - 1))
              /\ ps[k].trigram = t
              /\ SubSeq(file, ts.section.offset + 1,
                        ts.section.offset + ts.section.len)
                     = ps[k].bytes
              /\ ReadPostingHeader(file, ts.section.offset).trigram = t

\* C23: in the file build wrote, entry k of the posting-ends table is the
\* total byte length of the postings up to and including k, so the range the
\* reader computes for directory entry k is exactly the bytes of the posting
\* of that trigram, from its first header byte to its last byte; the table
\* is strictly increasing and its last entry is footer.trigram_postings.len.
EndsAreCumulative == phase = "open" => EndsFollow(WrittenPostings)

\* an opened file of three postings or more: the second starts where the
\* first ends
ThreePostingsOpened ==
    /\ phase = "open"
    /\ Len(index.trigram_posting_ends) >= 3
    /\ TrigramSection(index, index.unique_trigrams[2]).section.offset
          = index.trigram_posting_ends[1]
    /\ index.trigram_posting_ends[1] > 0

\* the exact sum a + b as <<carry, wrapped sum>>, and the order of such sums
LSum(a, b) == <<LOverflows(a, b), LAdd(a, b)>>
SumLeq(x, y) == (~x[1] /\ y[1]) \/ (x[1] = y[1] /\ LLeq(x[2], y[2]))

\* C24, narrow itself: narrow returns only when child.offset + child.len <=
\* self.len, and the section it returns has the offset self.offset +
\* child.offset and the length child.len and lies inside self.
NarrowStaysInside ==
    phase = "narrowed"
    => /\ SumLeq(LSum(nchild.offset, nchild.len), <<FALSE, nself.len>>)
       /\ ~LOverflows(nself.offset, nchild.offset)
       /\ nout = Section(LAdd(nself.offset, nchild.offset), nchild.len)
       /\ LLeq(nself.offset, nout.offset)
       /\ SumLeq(LSum(nout.offset, nout.len), LSum(nself.offset, nself.len))

\* C24, the reader: for every posting of a file build wrote, the nested
\* narrows of the three sub-stream sections pass their assertions, and each
\* section lies inside the posting's byte range and the postings region.
SubStreamsInsidePosting ==
    phase = "open"
    => \A k \in 1..Len(index.unique_trigrams) :
           LET postings == index.header.trigram_postings
               posting == TrigramSection(index, index.unique_trigrams[k]).section
               abs == Narrow(postings, posting)
               h == ReadPostingHeader(file, abs.offset)
           IN /\ NarrowOk(postings, posting)
              /\ \A child \in {SuccessorsSection(h), MatrixSection(h), DocsSection(h)} :
                     LET sec == Narrow(postings, Narrow(posting, child))
                     IN /\ NarrowOk(posting, child)
                        /\ NarrowOk(postings, Narrow(posting, child))
                        /\ abs.offset <= sec.offset
                        /\ sec.offset + sec.len <= abs.offset + abs.len
                        /\ postings.offset <= sec.offset
                        /\ sec.offset + sec.len <= postings.offset + postings.len

\* C25: every DocID candidates(q) yields for a query of three bytes or more
\* is in the list of the trigram q[0..3], that is, the DocID of an add_doc
\* call whose extractor map had q[0..3] as a key; and no query of any length
\* yields a DocID that is not below the number of documents added.
OnlyListedDocIDs ==
    phase = "queried"
    => \A id \in Range(result.out) :
           /\ id < num_docs
           /\ Len(query) >= 3
              => /\ SubSeq(query, 1, 3) \in DOMAIN combined
                 /\ id \in Range(ListIDs(SubSeq(query, 1, 3)))
                 /\ \E k \in 1..Len(docs) :
                        /\ docs[k].id = id
                        /\ SubSeq(query, 1, 3) \in DOMAIN ExtractTrigrams(docs[k].content)

\* a query longer than a trigram that yields a document, while another
\* document of the index is not in the list of its trigram
SomeDocsListed ==
    /\ phase = "queried"
    /\ Len(query) > 3
    /\ result.status = "ok"
    /\ result.out # <<>>
    /\ Len(ListIDs(SubSeq(query, 1, 3))) < num_docs

\* C26: whatever the index built and whatever the query, the DocIDs
\* candidates yields are in strictly ascending order.
CandidatesAscending == phase = "queried" => IsIncreasing(result.out, TRUE)

\* a trigram of both documents, asked for: DocID 0, then DocID 1
AscendingPairYielded ==
    /\ phase = "queried"
    /\ Len(query) = 3
    /\ query \in DOMAIN combined
    /\ Len(ListIDs(query)) = 2
    /\ result = Yield(<<0, 1>>)

\* the query without its last byte
Shortened(q) == SubSeq(q, 1, Len(q) - 1)

\* C27: extending a query never adds candidates: for a query q of three
\* bytes or more and a byte b, every DocID candidates(q followed by b) yields
\* is yielded by candidates(q) as well.
ExtendingNeverAdds ==
    (phase = "queried" /\ Len(query) >= 4 /\ result.out # <<>>)
    => Range(result.out) \subseteq Range(Candidates(index, file, Shortened(query)).out)

\* a query of five bytes or more that yields a document, the same as the
\* query without its last byte yields
ExtendedQueryYields ==
    /\ phase = "queried"
    /\ Len(query) >= 5
    /\ result.status = "ok"
    /\ result.out # <<>>
    /\ Candidates(index, file, Shortened(query)) = result

\* C28: two builders given the same documents in the same order hold the
\* same lists and write identical byte streams, whatever the order in which
\* each call iterates the extractor's hash map and the successor hash sets;
\* and the bytes are those of the documents alone.
BuildDeterministic ==
    /\ twin.combined = combined
    /\ phase \in {"twin_built", "twin_build_panic"}
       => /\ twin.ok = (phase = "twin_built")
          /\ twin.file = file
          /\ file = BuildIndex(combined, num_docs).bytes

\* two documents built into a file with a posting of two unique successors,
\* which the hash orders iterate differently
TwoOrdersBuilt ==
    /\ phase = "twin_built"
    /\ Len(docs) = 2
    /\ file # <<>>
    /\ \E t \in DOMAIN combined :
          /\ Len(PostingU(t)) >= 2
          /\ IterationOrder(combined[t][1].succ, "ascending")
                # IterationOrder(combined[t][1].succ, "descending")

\* C29: add_doc only appends. In a call that is assigned DocID k no trigram
\* key is removed, every list keeps the entries it had at the positions they
\* had, and a list gains at most one entry, at its end, carrying DocID k and
\* the successor set the extractor found; so every list stays strictly
\* increasing by DocID.
AddDocOnlyAppends ==
    /\ [][num_docs' # num_docs
            => /\ DOMAIN combined \subseteq DOMAIN combined'
               /\ docs'[Len(docs')].id = doc_ids
               /\ \A t \in DOMAIN combined' :
                      \/ t \in DOMAIN combined /\ combined'[t] = combined[t]
                      \/ /\ t \in DOMAIN ExtractTrigrams(docs'[Len(docs')].content)
                         /\ combined'[t]
                              = (IF t \in DOMAIN combined THEN combined[t] ELSE <<>>)
                                \o <<[id |-> doc_ids,
                                      succ |-> ExtractTrigrams(
                                                   docs'[Len(docs')].content)[t]]>>]_vars
    /\ [](\A t \in DOMAIN combined : IsIncreasing(ListIDs(t), TRUE))

\* after the second add_doc: a list of two entries next to a list that the
\* call left as it was
AppendedAndUntouched ==
    /\ phase = "twin_building"
    /\ num_docs = 2
    /\ \E t \in DOMAIN combined : ListIDs(t) = <<0, 1>>
    /\ \E t \in DOMAIN combined : ListIDs(t) = <<0>>
    /\ \E t \in DOMAIN combined : ListIDs(t) = <<1>>

\* the exact integer local_doc_idx * |U| + local_successor_idx of document d
\* of the posting, as a u64
ExactValue(d, pos) ==
    LAdd(LTimes(LAdd(wposting.skipped, L(d - 1)), wposting.columns), L(pos))

\* C30: every matrix value build writes is the exact integer
\* local_doc_idx * |U| + local_successor_idx: when a value of the posting
\* does not fit 32 bits build fails, it never writes the value truncated or
\* wrapped modulo 2^32.
MatrixValuesExact ==
    phase = "matrix_written"
    => \A d \in 1..Len(wposting.sets) : \A pos \in wposting.sets[d] :
           /\ ExactValue(d, pos)[1] = WZero
           /\ ExactValue(d, pos)[2] \in Range(wbuf)

====
